---- MODULE Spec2Model ----
(***************************************************************************)
(* A model of the JSON library of src/unnamed/part_002 (lines 1009-2297):  *)
(* the XOR-linked array, the open-addressing hash table, the lexer, the    *)
(* recursive-descent parser, json_free and json_load.                      *)
(*                                                                         *)
(* The C heap is a function from addresses to blocks.  Every operation of  *)
(* the library is an operator on a machine record                          *)
(*     m = [heap, brk, oom, fault, garbage, beyond, oob, stderr, nomem]    *)
(* and returns the machine it leaves (and a return value).                 *)
(*   heap    the live allocations, address -> block                        *)
(*   brk     the next address malloc hands out                             *)
(*   oom     -1: malloc never fails; n >= 0: the (n+1)-th malloc fails     *)
(*   fault   "none", or the undefined behaviour the execution ran into     *)
(*   garbage what an uninitialised Value node holds (identity, pointer)    *)
(*   beyond  the bytes that follow the source buffer's terminator          *)
(*   oob     a read past the terminator of the source buffer has happened  *)
(*   stderr  the diagnostics written so far                                *)
(*   nomem   a malloc has returned NULL                                    *)
(*                                                                         *)
(* The single-header library of src/unnamed/part_001 (lines 1020-1638) is  *)
(* modelled on values: json_new_*, json_set, json_to_string and            *)
(* json_from_string.                                                       *)
(***************************************************************************)
EXTENDS Integers, Sequences, FiniteSets, TLC

VARIABLES mach, pc, map, sets, lastGet, arr, appended, printed,
          source, head, cursor, root, doc, treeRoot, treeText, treeBack

vars == <<mach, pc, map, sets, lastGet, arr, appended, printed,
          source, head, cursor, root, doc, treeRoot, treeText, treeBack>>

NULL == 0

\* ------------------------------------------------------------------ bounds

\* Largest capacity json_create_object is called with in the map specification.
MaxCap == 3
\* Most json_object_set calls on one map.
MaxSets == 3
\* Most json_array_append calls on one array.
MaxAppend == 4

\* ------------------------------------------------------- bytes and 64 bits

RECURSIVE BitXor(_, _)
\* a ^ b on naturals.
BitXor(a, b) ==
    IF a = 0 THEN b
    ELSE IF b = 0 THEN a
    ELSE (((a % 2) + (b % 2)) % 2) + 2 * BitXor(a \div 2, b \div 2)

\* The byte value of a character of the model's alphabet (ASCII).
Ord(c) ==
    CASE c = "a" -> 97 [] c = "b" -> 98 [] c = "c" -> 99 [] c = "k" -> 107
      [] c = "x" -> 120 [] c = "u" -> 117 [] c = "n" -> 110 [] c = "t" -> 116
      [] c = "r" -> 114 [] c = "e" -> 101 [] c = "E" -> 69 [] c = "f" -> 102
      [] c = "l" -> 108 [] c = "s" -> 115
      [] c = "0" -> 48 [] c = "1" -> 49 [] c = "2" -> 50 [] c = "3" -> 51
      [] c = "4" -> 52 [] c = "5" -> 53 [] c = "6" -> 54 [] c = "7" -> 55
      [] c = "8" -> 56 [] c = "9" -> 57
      [] c = "-" -> 45 [] c = "+" -> 43 [] c = "." -> 46
      [] c = "{" -> 123 [] c = "}" -> 125 [] c = "[" -> 91 [] c = "]" -> 93
      [] c = ":" -> 58 [] c = "," -> 44 [] c = "\"" -> 34 [] c = "\\" -> 92
      [] c = " " -> 32 [] c = "\n" -> 10 [] c = "\t" -> 9 [] c = "\r" -> 13
      [] OTHER -> 0

\* A uint64_t is its eight bytes, least significant first.
U64Zero == <<0, 0, 0, 0, 0, 0, 0, 0>>

RECURSIVE MulColumn(_, _, _, _)
\* The sum of a[i] * b[k + 1 - i] for i in 1..j.
MulColumn(a, b, k, j) ==
    IF j = 0 THEN 0 ELSE a[j] * b[k + 1 - j] + MulColumn(a, b, k, j - 1)

RECURSIVE MulBytes(_, _, _, _)
MulBytes(a, b, k, carry) ==
    IF k > 8 THEN <<>>
    ELSE LET t == MulColumn(a, b, k, k) + carry
         IN  <<t % 256>> \o MulBytes(a, b, k + 1, t \div 256)

\* a * b modulo 2^64 (uint64_t multiplication).
Mul64(a, b) == MulBytes(a, b, 1, 0)

\* a ^ byte: only the low byte changes.
Xor64Byte(a, byte) == [a EXCEPT ![1] = BitXor(a[1], byte)]

RECURSIVE ModBytes(_, _, _)
ModBytes(a, n, i) ==
    IF i = 0 THEN 0 ELSE (ModBytes(a, n, i - 1) * 256 + a[9 - i]) % n

\* a % n for 1 <= n < 2^20.
Mod64(a, n) == ModBytes(a, n, 8)

\* ---------------------------------------------------------------- the heap

NoFault == "none"

Machine0 ==
    [heap |-> <<>>, brk |-> 1, oom |-> -1, fault |-> NoFault,
     garbage |-> [identity |-> "JSON_NULL", null |-> TRUE], beyond |-> <<>>,
     oob |-> FALSE, stderr |-> <<>>, nomem |-> FALSE]

Live(m, p) == p \in DOMAIN m.heap

\* p points at a live block of the given kind (a pointer of the right type).
IsA(m, p, kind) == Live(m, p) /\ m.heap[p].kind = kind

Fault(m, what) == IF m.fault = NoFault THEN [m EXCEPT !.fault = what] ELSE m

\* malloc/calloc: a fresh block at a fresh address, or NULL when out of memory.
Malloc(m, blk) ==
    IF m.oom = 0
    THEN [m |-> [m EXCEPT !.oom = -1, !.nomem = TRUE], p |-> NULL]
    ELSE [m |-> [m EXCEPT !.heap = (m.brk :> blk) @@ m.heap,
                          !.brk = m.brk + 1,
                          !.oom = IF m.oom > 0 THEN m.oom - 1 ELSE m.oom],
          p |-> m.brk]

\* free: releases a live block; free(NULL) does nothing; anything else is
\* undefined (a double free, a free of a wild pointer).
Free(m, p) ==
    IF p = NULL THEN m
    ELSE IF Live(m, p)
    THEN [m EXCEPT !.heap = [a \in (DOMAIN m.heap) \ {p} |-> m.heap[a]]]
    ELSE Fault(m, "bad_free")

Store(m, p, blk) == [m EXCEPT !.heap = [m.heap EXCEPT ![p] = blk]]

\* The bytes of the C string at p (its strlen is their number).
Str(m, p) == m.heap[p].bytes

CString(bytes) == [kind |-> "cstring", bytes |-> bytes]

\* The terminating '\0' of a C string or of the source buffer.
NUL == "NUL"

\* view[i] for a C string: its bytes, then the terminator.
CharAt(bytes, i) == IF i < Len(bytes) THEN bytes[i + 1] ELSE NUL

\* ----------------------------------------------------------- the hash table

\* uint64_t hash = 1099511628211ULL, the start value of the loop (0x100000001B3).
HashStart == <<179, 1, 0, 0, 0, 1, 0, 0>>

\* 14695981039346656037ULL, the multiplier of the loop (0xCBF29CE484222325).
HashMultiplier == <<37, 35, 34, 132, 228, 156, 242, 203>>

RECURSIVE HashLoop(_, _, _, _)
\* for (i = 0; i < size; i++) hash = (hash ^ data[i]) * 14695981039346656037ULL
HashLoop(hash, view, i, size) ==
    IF i >= size THEN hash
    ELSE HashLoop(Mul64(Xor64Byte(hash, Ord(view[i + 1])), HashMultiplier),
                  view, i + 1, size)

json_hash_string_view(view, size) == HashLoop(HashStart, view, 0, size)

RECURSIVE CompLoop(_, _, _, _)
CompLoop(view_a, view_b, i, size) ==
    IF i >= size THEN 1
    ELSE IF CharAt(view_a, i) # CharAt(view_b, i) THEN 0
    ELSE CompLoop(view_a, view_b, i + 1, size)

\* 1 when the first `size` bytes of the two views agree, 0 otherwise.
json_comp_string_view(view_a, view_b, size) == CompLoop(view_a, view_b, 0, size)

\* (double)count / capacity > 0.75, exactly; 0/0 is NaN and compares false.
json_object_needs_to_expand(obj) ==
    IF obj.capacity # 0 /\ 4 * obj.count > 3 * obj.capacity THEN 1 ELSE 0

EmptySlot == [ptr |-> NULL, size |-> 0, value |-> NULL]

\* calloc(capacity, sizeof(json_keyval_t)): every slot zeroed.
NewContent(capacity) ==
    [kind |-> "content", slots |-> [i \in 0 .. capacity - 1 |-> EmptySlot]]

json_create_object(m, capacity) ==
    LET a == Malloc(m, [kind |-> "object", count |-> 0, capacity |-> capacity,
                        content |-> NULL])
    IN  IF a.p = NULL THEN [m |-> a.m, ret |-> NULL]
        ELSE LET c == Malloc(a.m, NewContent(capacity))
             IN  IF c.p = NULL THEN [m |-> Free(c.m, a.p), ret |-> NULL]
                 ELSE [m |-> Store(c.m, a.p, [c.m.heap[a.p] EXCEPT !.content = c.p]),
                       ret |-> a.p]

RECURSIVE RehashProbe(_, _, _, _, _)
\* while (1): the first free slot from index on, wrapping.  A table without a
\* free slot keeps the loop running for ever (index -1).
RehashProbe(slots, index, new_capacity, bucket, steps) ==
    IF steps = 0 THEN slots
    ELSE IF slots[index].ptr = NULL THEN [slots EXCEPT ![index] = bucket]
    ELSE RehashProbe(slots, (index + 1) % new_capacity, new_capacity, bucket, steps - 1)

RECURSIVE RehashLoop(_, _, _, _, _)
\* for (j = 0; j < capacity; j++): move every occupied bucket into new_content.
RehashLoop(m, old, new, j, new_capacity) ==
    IF j >= Len(old) THEN new
    ELSE LET bucket == old[j + 1]
         IN  IF bucket.ptr = NULL
             THEN RehashLoop(m, old, new, j + 1, new_capacity)
             ELSE LET hash == json_hash_string_view(Str(m, bucket.ptr), bucket.size)
                      index == Mod64(hash, new_capacity)
                  IN  RehashLoop(m, old,
                                 RehashProbe(new, index, new_capacity, bucket, new_capacity),
                                 j + 1, new_capacity)

\* The slots of a content block, in index order.
SlotSeq(blk, capacity) == [j \in 1 .. capacity |-> blk.slots[j - 1]]

NewCapacity(capacity) == IF capacity < 2 THEN 16 ELSE 2 * capacity

json_object_expand(m, object) ==
    LET obj == m.heap[object]
        new_capacity == NewCapacity(obj.capacity)
    IN  IF new_capacity <= obj.capacity THEN [m |-> m, ret |-> 1]
        ELSE LET c == Malloc(m, NewContent(new_capacity))
             IN  IF c.p = NULL THEN [m |-> c.m, ret |-> 1]
                 ELSE LET old == SlotSeq(m.heap[obj.content], obj.capacity)
                          slots == RehashLoop(m, old, NewContent(new_capacity).slots,
                                              0, new_capacity)
                          m1 == Store(c.m, c.p, [kind |-> "content", slots |-> slots])
                          m2 == Free(m1, obj.content)
                      IN  [m |-> Store(m2, object,
                                       [obj EXCEPT !.capacity = new_capacity,
                                                   !.content = c.p]),
                           ret |-> 0]

RECURSIVE SetProbe(_, _, _, _, _, _)
\* while (1) of json_object_set: the slot the key lands in.  act "insert": the
\* slot is free; "duplicate": json_comp_string_view accepted the slot's key;
\* "hang": no slot ends the loop.
SetProbe(m, slots, capacity, key, index, steps) ==
    IF steps = 0 THEN [act |-> "hang", index |-> index]
    ELSE IF slots[index].ptr = NULL THEN [act |-> "insert", index |-> index]
    ELSE IF json_comp_string_view(Str(m, slots[index].ptr), Str(m, key),
                                  slots[index].size) = 1
    THEN [act |-> "duplicate", index |-> index]
    ELSE SetProbe(m, slots, capacity, key, (index + 1) % capacity, steps - 1)

json_object_set(m, object, key, value) ==
    LET e == IF json_object_needs_to_expand(m.heap[object]) = 1
             THEN json_object_expand(m, object)
             ELSE [m |-> m, ret |-> 0]
    IN  IF e.ret # 0 THEN [m |-> e.m, ret |-> 1]
        ELSE LET obj == e.m.heap[object]
             IN  IF obj.capacity = 0 THEN [m |-> Fault(e.m, "div_zero"), ret |-> 1]
                 ELSE
                 LET hash == json_hash_string_view(Str(e.m, key), Len(Str(e.m, key)))
                     index == Mod64(hash, obj.capacity)
                     blk == e.m.heap[obj.content]
                     pr == SetProbe(e.m, blk.slots, obj.capacity, key, index, obj.capacity)
                 IN  CASE pr.act = "insert" ->
                            [m |-> Store(Store(e.m, obj.content,
                                   [blk EXCEPT !.slots[pr.index] =
                                       [ptr |-> key, size |-> Len(Str(e.m, key)),
                                        value |-> value]]),
                                   object, [obj EXCEPT !.count = obj.count + 1]),
                             ret |-> 0]
                       [] pr.act = "duplicate" -> [m |-> e.m, ret |-> 0]
                       [] OTHER -> [m |-> Fault(e.m, "hang"), ret |-> 1]

RECURSIVE GetProbe(_, _, _, _, _, _)
GetProbe(m, slots, capacity, key, index, steps) ==
    IF steps = 0 THEN [ret |-> NULL, hang |-> TRUE]
    ELSE IF slots[index].ptr = NULL THEN [ret |-> NULL, hang |-> FALSE]
    ELSE IF json_comp_string_view(Str(m, slots[index].ptr), Str(m, key),
                                  slots[index].size) = 1
    THEN [ret |-> slots[index].value, hang |-> FALSE]
    ELSE GetProbe(m, slots, capacity, key, (index + 1) % capacity, steps - 1)

\* ret: the value returned; hang: the search loop never ends (every slot is
\* occupied and none matches).
json_object_get(m, object, key) ==
    LET obj == m.heap[object]
        hash == json_hash_string_view(Str(m, key), Len(Str(m, key)))
        index == Mod64(hash, obj.capacity)
    IN  GetProbe(m, m.heap[obj.content].slots, obj.capacity, key, index, obj.capacity)


\* ------------------------------------------------------------ the XOR array

json_array_xor(a, b) == BitXor(a, b)

\* Steps the pair (previous, current) one node down the list; reading a node
\* that is not allocated is undefined.
json_array_next(m, previous, current) ==
    IF ~IsA(m, current, "array")
    THEN [m |-> Fault(m, "wild_read"), previous |-> previous, current |-> current]
    ELSE [m |-> m, previous |-> current,
          current |-> json_array_xor(previous, m.heap[current].next)]

json_create_array(m) ==
    LET a == Malloc(m, [kind |-> "array", next |-> NULL, content |-> NULL])
    IN  IF a.p = NULL
        THEN [m |-> Fault(a.m, "null_deref"), ret |-> NULL]
        ELSE [m |-> a.m, ret |-> a.p]

RECURSIVE WalkToEnd(_, _, _, _)
\* while (previous != current) json_array_next(&previous, &current);
WalkToEnd(m, previous, current, fuel) ==
    IF m.fault # NoFault \/ previous = current
    THEN [m |-> m, previous |-> previous, current |-> current]
    ELSE IF fuel = 0
    THEN [m |-> Fault(m, "hang"), previous |-> previous, current |-> current]
    ELSE LET n == json_array_next(m, previous, current)
         IN  WalkToEnd(n.m, n.previous, n.current, fuel - 1)

\* More steps than a list of live nodes can take.
Fuel(m) == m.brk + 1

\* A faulty append: the step back past the end of the list (line 1287) is
\* left out, so the new node is linked after the wrong pair.
AppendAtEnd_NoStepBack(m, array, new) ==
    LET s1 == json_array_next(m, array, array)
        w  == WalkToEnd(s1.m, s1.previous, s1.current, Fuel(m))
    IN  IF w.m.fault # NoFault THEN w.m
        ELSE LET m1 == Store(w.m, new,
                             [w.m.heap[new] EXCEPT
                                 !.next = json_array_xor(new, w.previous)])
             IN  Store(m1, w.previous,
                       [m1.heap[w.previous] EXCEPT
                           !.next = json_array_xor(new, w.current)])

\* Lines 1271-1293 of json_array_append: the array has two nodes or more.
AppendAtEnd(m, array, new) ==
    LET s1 == json_array_next(m, array, array)
        w  == WalkToEnd(s1.m, s1.previous, s1.current, Fuel(m))
        s2 == json_array_next(w.m, w.previous, w.current)
    IN  IF s2.m.fault # NoFault THEN s2.m
        ELSE LET m1 == Store(s2.m, new,
                             [s2.m.heap[new] EXCEPT
                                 !.next = json_array_xor(new, s2.previous)])
             IN  Store(m1, s2.previous,
                       [m1.heap[s2.previous] EXCEPT
                           !.next = json_array_xor(new, s2.current)])

json_array_append(m, array, value) ==
    IF array = NULL \/ value = NULL THEN m
    ELSE IF m.heap[array].next = NULL /\ m.heap[array].content = NULL
    THEN Store(m, array, [m.heap[array] EXCEPT !.content = value])
    ELSE LET a == Malloc(m, [kind |-> "array", next |-> "UNINIT", content |-> value])
         IN  IF a.p = NULL THEN a.m
             ELSE IF a.m.heap[array].next = NULL
             THEN LET m1 == Store(a.m, array,
                                  [a.m.heap[array] EXCEPT
                                      !.next = json_array_xor(a.p, array)])
                  IN  Store(m1, a.p,
                            [m1.heap[a.p] EXCEPT !.next = json_array_xor(a.p, array)])
             ELSE AppendAtEnd(a.m, array, a.p)

RECURSIVE PrintWalk(_, _, _, _, _)
\* while (previous != current) { json_print(previous->content); next }
PrintWalk(m, previous, current, out, fuel) ==
    IF m.fault # NoFault \/ previous = current
    THEN [m |-> m, previous |-> previous, out |-> out]
    ELSE IF fuel = 0 THEN [m |-> Fault(m, "hang"), previous |-> previous, out |-> out]
    ELSE LET n == json_array_next(m, previous, current)
         IN  PrintWalk(n.m, n.previous, n.current,
                       Append(out, m.heap[previous].content), fuel - 1)

\* The Values json_print_array hands to json_print, in order.
json_print_array(m, array) ==
    IF array = NULL THEN [m |-> m, out |-> <<>>]
    ELSE IF m.heap[array].content = NULL /\ m.heap[array].next = NULL
    THEN [m |-> m, out |-> <<>>]
    ELSE IF m.heap[array].next = NULL
    THEN [m |-> m, out |-> <<m.heap[array].content>>]
    ELSE LET s1 == json_array_next(m, array, array)
             w  == PrintWalk(s1.m, s1.previous, s1.current, <<>>, Fuel(m))
         IN  IF w.m.fault # NoFault THEN [m |-> w.m, out |-> w.out]
             ELSE [m |-> w.m, out |-> Append(w.out, w.m.heap[w.previous].content)]


\* ------------------------------------------------------------------ json_free

\* A Value node as malloc returns it: neither the identity nor the union has
\* been written.
FreshValue == [kind |-> "value", identity |-> "UNINIT", uset |-> FALSE, u |-> NULL]

ValueTags ==
    {"JSON_OBJECT", "JSON_ARRAY", "JSON_STRING", "JSON_NUMBER", "JSON_BOOLEAN",
     "JSON_NULL"}

\* What reading (*json)->identity yields: the tag written, or whatever the
\* uninitialised memory holds.
ReadIdentity(m, blk) ==
    IF blk.identity = "UNINIT" THEN m.garbage.identity ELSE blk.identity

\* Reading the pointer member of the union: the pointer written, or, of an
\* unwritten union, NULL or a wild pointer.
UnionIsWild(m, blk) == ~blk.uset /\ ~m.garbage.null
UnionPtr(m, blk) == IF blk.uset THEN blk.u ELSE NULL

RECURSIVE json_free(_, _)
RECURSIVE json_free_object(_, _)
RECURSIVE json_free_array(_, _)
RECURSIVE FreeSlots(_, _, _, _)
RECURSIVE FreeWalk(_, _, _, _)

\* for (i = 0; i < capacity; i++) if (key.ptr != NULL) { free(key.ptr);
\* json_free(&value); }
FreeSlots(m, content, i, capacity) ==
    IF m.fault # NoFault \/ i >= capacity THEN m
    ELSE LET slot == m.heap[content].slots[i]
         IN  IF slot.ptr = NULL THEN FreeSlots(m, content, i + 1, capacity)
             ELSE LET m1 == Free(m, slot.ptr)
                      f  == json_free(m1, slot.value)
                      m2 == IF f.m.fault # NoFault THEN f.m
                            ELSE Store(f.m, content,
                                       [f.m.heap[content] EXCEPT
                                           !.slots[i].value = f.ptr])
                  IN  FreeSlots(m2, content, i + 1, capacity)

\* Leaves *object as it was (the pointer is not reset).
json_free_object(m, object) ==
    IF object = NULL THEN m
    ELSE IF ~IsA(m, object, "object") THEN Fault(m, "wild_read")
    ELSE LET obj == m.heap[object]
             m1  == IF obj.content = NULL /\ obj.capacity > 0
                    THEN Fault(m, "null_deref")
                    ELSE FreeSlots(m, obj.content, 0, obj.capacity)
         IN  IF m1.fault # NoFault THEN m1
             ELSE Free(Free(m1, obj.content), object)

\* while (previous != current) { temporary = previous; next;
\* json_free(&temporary->content); free(temporary); }
FreeWalk(m, previous, current, fuel) ==
    IF m.fault # NoFault \/ previous = current
    THEN [m |-> m, previous |-> previous]
    ELSE IF fuel = 0 THEN [m |-> Fault(m, "hang"), previous |-> previous]
    ELSE LET temporary == previous
             n  == json_array_next(m, previous, current)
             f  == json_free(n.m, n.m.heap[temporary].content)
             m1 == IF f.m.fault # NoFault THEN f.m ELSE Free(f.m, temporary)
         IN  IF n.m.fault # NoFault THEN [m |-> n.m, previous |-> previous]
             ELSE FreeWalk(m1, n.previous, n.current, fuel - 1)

\* ptr: what *array holds afterwards.
json_free_array(m, array) ==
    IF array = NULL THEN [m |-> m, ptr |-> NULL]
    ELSE LET s1 == json_array_next(m, array, array)
             w  == FreeWalk(s1.m, s1.previous, s1.current, Fuel(m))
         IN  IF w.m.fault # NoFault THEN [m |-> w.m, ptr |-> array]
             ELSE [m |-> Free(w.m, w.previous), ptr |-> NULL]

\* ptr: what *json holds afterwards.
json_free(m, json) ==
    IF json = NULL \/ m.fault # NoFault THEN [m |-> m, ptr |-> json]
    ELSE IF ~IsA(m, json, "value") THEN [m |-> Fault(m, "wild_read"), ptr |-> json]
    ELSE LET blk   == m.heap[json]
             ident == ReadIdentity(m, blk)
         IN  CASE ident = "JSON_OBJECT" ->
                    IF UnionIsWild(m, blk)
                    THEN [m |-> Fault(m, "wild_read"), ptr |-> json]
                    ELSE [m |-> json_free_object(m, UnionPtr(m, blk)), ptr |-> NULL]
               [] ident = "JSON_ARRAY" ->
                    IF UnionIsWild(m, blk)
                    THEN [m |-> Fault(m, "wild_read"), ptr |-> json]
                    ELSE LET f == json_free_array(m, UnionPtr(m, blk))
                         IN  IF f.m.fault # NoFault THEN [m |-> f.m, ptr |-> json]
                             ELSE [m |-> IF blk.uset
                                         THEN Store(f.m, json, [blk EXCEPT !.u = f.ptr])
                                         ELSE f.m,
                                   ptr |-> NULL]
               [] ident = "JSON_STRING" ->
                    IF UnionIsWild(m, blk)
                    THEN [m |-> Fault(m, "bad_free"), ptr |-> json]
                    ELSE [m |-> Free(Free(m, UnionPtr(m, blk)), json), ptr |-> NULL]
               [] ident \in {"JSON_NUMBER", "JSON_BOOLEAN", "JSON_NULL"} ->
                    [m |-> Free(m, json), ptr |-> NULL]
               [] OTHER -> [m |-> m, ptr |-> json]


\* ------------------------------------------------------------------ the lexer

\* The byte at json_data[i] of the buffer holding src: the text, its
\* terminator, then whatever memory follows; "SEGV" where nothing is mapped.
Byte(m, src, i) ==
    IF i < Len(src) THEN src[i + 1]
    ELSE IF i = Len(src) THEN NUL
    ELSE IF i - Len(src) <= Len(m.beyond) THEN m.beyond[i - Len(src)]
    ELSE "SEGV"

\* The machine after reading json_data[i].
Touch(m, src, i) ==
    IF i <= Len(src) THEN m
    ELSE IF i - Len(src) <= Len(m.beyond) THEN [m EXCEPT !.oob = TRUE]
    ELSE Fault([m EXCEPT !.oob = TRUE], "segv")

Digits == {"0", "1", "2", "3", "4", "5", "6", "7", "8", "9"}

RECURSIVE SkipDigits(_, _, _)
\* while (*json_data >= '0' && *json_data <= '9') json_data++;
SkipDigits(m, src, i) ==
    LET m1 == Touch(m, src, i)
    IN  IF m1.fault = NoFault /\ Byte(m, src, i) \in Digits
        THEN SkipDigits(m1, src, i + 1)
        ELSE [m |-> m1, i |-> i]

RECURSIVE StringScan(_, _, _)
\* while (*json_data != '"' || *(json_data-1) == '\\') json_data++;
StringScan(m, src, i) ==
    LET m1 == Touch(m, src, i)
    IN  IF m1.fault # NoFault THEN [m |-> m1, i |-> i]
        ELSE IF Byte(m, src, i) # "\""
        THEN StringScan(m1, src, i + 1)
        ELSE LET m2 == Touch(m1, src, i - 1)
             IN  IF m2.fault = NoFault /\ Byte(m, src, i - 1) = "\\"
                 THEN StringScan(m2, src, i + 1)
                 ELSE [m |-> m2, i |-> i]

\* Lines 1775-1788: the integer part of a number.
NumberHead(m, src, i) ==
    LET c0 == Byte(m, src, i)
        c1 == Byte(m, src, i + 1)
        m1 == IF c0 \in {"-", "0"} THEN Touch(m, src, i + 1) ELSE m
    IN  IF c0 = "-" /\ c1 = "0" THEN [m |-> m1, i |-> i + 1]
        ELSE IF c0 = "0" /\ c1 = "." THEN [m |-> m1, i |-> i + 1]
        ELSE IF c0 = "0" /\ c1 = "e" THEN [m |-> m1, i |-> i + 1]
        ELSE IF c0 = "0" /\ c1 = "E" THEN [m |-> m1, i |-> i + 1]
        ELSE IF c0 \in Digits \ {"0"} THEN SkipDigits(m1, src, i + 1)
        ELSE [m |-> m1, i |-> i]

\* Lines 1790-1797: the fraction.
NumberFraction(m, src, i) ==
    LET m1 == Touch(m, src, i)
    IN  IF m1.fault = NoFault /\ Byte(m, src, i) = "."
        THEN SkipDigits(m1, src, i + 1)
        ELSE [m |-> m1, i |-> i]

\* Lines 1799-1810: the exponent.
NumberExponent(m, src, i) ==
    LET m1 == Touch(m, src, i)
    IN  IF m1.fault = NoFault /\ Byte(m, src, i) \in {"E", "e"}
        THEN LET m2 == Touch(m1, src, i + 1)
             IN  IF m2.fault = NoFault /\ Byte(m, src, i + 1) \in {"-", "+"}
                 THEN SkipDigits(m2, src, i + 2)
                 ELSE SkipDigits(m2, src, i + 1)
        ELSE [m |-> m1, i |-> i]

NumberScan(m, src, i) ==
    LET h == NumberHead(m, src, i)
        f == IF h.m.fault # NoFault THEN h ELSE NumberFraction(h.m, src, h.i)
    IN  IF f.m.fault # NoFault THEN f ELSE NumberExponent(f.m, src, f.i)

RECURSIVE LineText(_, _, _)
\* while (*line_start != '\n' && *line_start != '\0') print *line_start++
\* text: the bytes printed; at: where line_start is left.
LineText(m, src, i) ==
    LET m1 == Touch(m, src, i)
        c  == Byte(m, src, i)
    IN  IF m1.fault # NoFault \/ c = "\n" \/ c = NUL
        THEN [m |-> m1, text |-> <<>>, at |-> i]
        ELSE LET r == LineText(m1, src, i + 1)
             IN  [m |-> r.m, text |-> <<c>> \o r.text, at |-> r.at]

\* One pass of the switch of json_lexer at json_data = i.  bad: the default
\* case; otherwise the token's identity and span, where json_data is left,
\* and the line bookkeeping.
LexToken(m, src, i, line, line_start) ==
    LET c == Byte(m, src, i)
        one(id) == [m |-> m, bad |-> FALSE, identity |-> id, start |-> i,
                    end |-> i + 1, at |-> i + 1, line |-> line,
                    line_start |-> line_start]
    IN  CASE c = "{" -> one("JSON_TOKEN_CURLY_OPEN")
          [] c = "}" -> one("JSON_TOKEN_CURLY_CLOSE")
          [] c = "[" -> one("JSON_TOKEN_SQUARE_OPEN")
          [] c = "]" -> one("JSON_TOKEN_SQUARE_CLOSE")
          [] c = "\n" -> [one("JSON_TOKEN_WHITESPACE") EXCEPT
                             !.line = line + 1, !.line_start = i]
          [] c \in {" ", "\t", "\r"} -> one("JSON_TOKEN_WHITESPACE")
          [] c = "\"" ->
                LET sc == StringScan(m, src, i + 1)
                IN  [m |-> sc.m, bad |-> FALSE, identity |-> "JSON_TOKEN_STRING",
                     start |-> i + 1, end |-> sc.i, at |-> sc.i + 1,
                     line |-> line, line_start |-> line_start]
          [] c = ":" -> one("JSON_TOKEN_COLON")
          [] c = "," -> one("JSON_TOKEN_COMMA")
          [] c \in Digits \cup {"-"} ->
                LET sc == NumberScan(m, src, i)
                IN  [m |-> sc.m, bad |-> FALSE, identity |-> "JSON_TOKEN_NUMBER",
                     start |-> i, end |-> sc.i, at |-> sc.i,
                     line |-> line, line_start |-> line_start]
          [] c \in {"t", "f"} ->
                LET e == IF c = "t" THEN i + 4 ELSE i + 5
                IN  [one("JSON_TOKEN_BOOLEAN") EXCEPT !.end = e, !.at = e]
          [] c = "n" -> [one("JSON_TOKEN_NULL") EXCEPT !.end = i + 4, !.at = i + 4]
          [] OTHER -> [one("none") EXCEPT !.bad = TRUE]

RECURSIVE FreeTokens(_, _, _)
FreeTokens(m, now, fuel) ==
    IF m.fault # NoFault THEN m
    ELSE IF ~IsA(m, now, "token") THEN Fault(m, "wild_read")
    ELSE IF fuel = 0 THEN Fault(m, "hang")
    ELSE LET later == m.heap[now].next
             m1 == Free(m, now)
         IN  IF later = NULL THEN m1 ELSE FreeTokens(m1, later, fuel - 1)

\* Frees every node of the list; *token is NULL afterwards.
json_free_all_the_tokens(m, token) ==
    IF token = NULL THEN m ELSE FreeTokens(m, token, Fuel(m))

RECURSIVE LastToken(_, _)
LastToken(m, probe) ==
    IF m.heap[probe].next = NULL THEN probe ELSE LastToken(m, m.heap[probe].next)

\* head: the head of the list afterwards.
json_append_token_to_list(m, head_of_list, token) ==
    IF head_of_list = NULL THEN [m |-> m, head |-> token]
    ELSE LET probe == LastToken(m, head_of_list)
         IN  [m |-> Store(m, probe, [m.heap[probe] EXCEPT !.next = token]),
              head |-> head_of_list]

RECURSIVE LexLoop(_, _, _, _, _, _, _)

\* Lines 1837-1858, the default case: the line is printed, the list built so
\* far is freed (the token being built is not) and NULL is returned.
LexDefault(lt, line, toks) ==
    [m |-> IF lt.m.fault # NoFault THEN lt.m
           ELSE json_free_all_the_tokens(
                    [lt.m EXCEPT !.stderr = Append(@, [what |-> "lexer",
                                                       line |-> line,
                                                       text |-> lt.text])],
                    toks),
     ret |-> NULL]

\* Line 1862 and the next pass of the loop.
LexNext(ap, src, t, json_size) ==
    LexLoop(ap.m, src, t.at, json_size - 1, t.line, t.line_start, ap.head)

\* The switch has run with outcome t for the token node `token`.
LexSwitch(token, t, src, json_size, line, line_start, toks) ==
    IF t.m.fault # NoFault THEN [m |-> t.m, ret |-> NULL]
    ELSE IF t.bad THEN LexDefault(LineText(t.m, src, line_start), line, toks)
    ELSE LexNext(json_append_token_to_list(
                     Store(t.m, token,
                           [kind |-> "token", identity |-> t.identity,
                            start |-> t.start, end |-> t.end,
                            line_start |-> t.line_start, next |-> NULL]),
                     toks, token),
                 src, t, json_size)

\* Lines 1673-1679: a is the malloc of the token node.
LexWithToken(a, src, i, json_size, line, line_start, toks) ==
    IF a.p = NULL
    THEN [m |-> json_free_all_the_tokens(a.m, toks), ret |-> NULL]
    ELSE LexSwitch(a.p, LexToken(a.m, src, i, line, line_start), src, json_size,
                   line, line_start, toks)

\* while (*json_data != '\0' && json_size-- != 0) { ... }
LexLoop(m, src, i, json_size, line, line_start, toks) ==
    IF Touch(m, src, i).fault # NoFault THEN [m |-> Touch(m, src, i), ret |-> NULL]
    ELSE IF Byte(m, src, i) = NUL \/ json_size = 0
    THEN [m |-> Touch(m, src, i), ret |-> toks]
    ELSE LexWithToken(Malloc(Touch(m, src, i),
                             [kind |-> "token", identity |-> "UNINIT", start |-> 0,
                              end |-> 0, line_start |-> 0, next |-> NULL]),
                      src, i, json_size, line, line_start, toks)

\* ret: the head of the token list, or NULL.
json_lexer(m, src, json_size) == LexLoop(m, src, 0, json_size, 1, 0, NULL)


\* ----------------------------------------------------------------- strtod

\* A double is kept as (-1)^neg * mant * 10^exp with mant not ending in 0;
\* zero is [neg FALSE, mant 0, exp 0] (-0.0 == 0.0).
RECURSIVE Normal(_, _, _)
Normal(neg, mant, exp) ==
    IF mant = 0 THEN [neg |-> FALSE, mant |-> 0, exp |-> 0]
    ELSE IF mant % 10 = 0 THEN Normal(neg, mant \div 10, exp + 1)
    ELSE [neg |-> neg, mant |-> mant, exp |-> exp]

DigitValue(c) ==
    CASE c = "0" -> 0 [] c = "1" -> 1 [] c = "2" -> 2 [] c = "3" -> 3
      [] c = "4" -> 4 [] c = "5" -> 5 [] c = "6" -> 6 [] c = "7" -> 7
      [] c = "8" -> 8 [] c = "9" -> 9 [] OTHER -> 0

RECURSIVE DigitRun(_, _, _, _)
\* The digits of str from position p on: how many, and acc extended by them.
DigitRun(str, p, n, acc) ==
    IF CharAt(str, p) \in Digits
    THEN DigitRun(str, p + 1, n + 1, 10 * acc + DigitValue(CharAt(str, p)))
    ELSE [n |-> n, acc |-> acc, p |-> p]

\* strtod(str, NULL) on a decimal literal: the longest prefix of the form
\* [-+] digits [. digits] [(e|E) [-+] digits]; no conversion yields 0.
strtod(str) ==
    LET sign == IF CharAt(str, 0) \in {"-", "+"} THEN 1 ELSE 0
        ip == DigitRun(str, sign, 0, 0)
        fp == IF CharAt(str, ip.p) = "."
              THEN DigitRun(str, ip.p + 1, 0, ip.acc)
              ELSE [n |-> 0, acc |-> ip.acc, p |-> ip.p]
        es == IF CharAt(str, fp.p) \in {"e", "E"}
              THEN IF CharAt(str, fp.p + 1) \in {"-", "+"} THEN fp.p + 2 ELSE fp.p + 1
              ELSE fp.p
        ep == IF es > fp.p THEN DigitRun(str, es, 0, 0) ELSE [n |-> 0, acc |-> 0, p |-> es]
        e10 == IF ep.n = 0 THEN 0
               ELSE IF CharAt(str, fp.p + 1) = "-" THEN 0 - ep.acc ELSE ep.acc
    IN  IF ip.n + fp.n = 0 THEN Normal(FALSE, 0, 0)
        ELSE Normal(CharAt(str, 0) = "-", fp.acc, e10 - fp.n)

RECURSIVE SpanText(_, _, _)
\* printf("%.*s", (int)(end - start), start): the bytes of the span, up to a
\* terminator.
SpanText(src, i, end) ==
    IF i >= end \/ i >= Len(src) THEN <<>>
    ELSE <<src[i + 1]>> \o SpanText(src, i + 1, end)

RECURSIVE json_print_tokens(_, _, _)
\* The bytes written to the standard output: a string token between two
\* quotes, every other token as its span.
json_print_tokens(m, src, token) ==
    IF token = NULL THEN <<>>
    ELSE (IF m.heap[token].identity = "JSON_TOKEN_STRING"
          THEN <<"\"">> \o SpanText(src, m.heap[token].start, m.heap[token].end)
                        \o <<"\"">>
          ELSE SpanText(src, m.heap[token].start, m.heap[token].end))
         \o json_print_tokens(m, src, m.heap[token].next)

\* ------------------------------------------------------------------ the parser

\* The capacity json_parser creates its objects with.
JSON_OBJECT_DEFAULT_SIZE == 16

\* A json_gobble_whitespace that leaves the cursor where it is.
json_gobble_whitespace_Stays(m, t) == t

RECURSIVE json_gobble_whitespace(_, _)
\* while (*tokens != NULL && (*tokens)->identity == JSON_TOKEN_WHITESPACE)
json_gobble_whitespace(m, t) ==
    IF t = NULL THEN NULL
    ELSE IF m.heap[t].identity = "JSON_TOKEN_WHITESPACE"
    THEN json_gobble_whitespace(m, m.heap[t].next)
    ELSE t

RECURSIVE ViewCopy(_, _, _, _)
\* strncpy(cstring, start, size): the bytes copied before a terminator.
ViewCopy(m, src, i, size) ==
    IF size <= 0 THEN [m |-> m, bytes |-> <<>>]
    ELSE LET m1 == Touch(m, src, i)
             c  == Byte(m, src, i)
         IN  IF m1.fault # NoFault \/ c = NUL THEN [m |-> m1, bytes |-> <<>>]
             ELSE LET r == ViewCopy(m1, src, i + 1, size - 1)
                  IN  [m |-> r.m, bytes |-> <<c>> \o r.bytes]

\* p: the new C string, or NULL.
json_string_view_to_cstring(m, src, start, end) ==
    LET a == Malloc(m, CString(<<>>))
    IN  IF a.p = NULL THEN [m |-> a.m, p |-> NULL]
        ELSE LET v == ViewCopy(a.m, src, start, end - start)
             IN  [m |-> IF v.m.fault # NoFault THEN v.m
                        ELSE Store(v.m, a.p, CString(v.bytes)),
                  p |-> a.p]

\* Prints the line of the token (advancing token->line_start over it) and
\* what was expected and found.
json_print_unexpected_token(m, src, token, anticipated) ==
    LET lt == LineText(m, src, m.heap[token].line_start)
    IN  IF lt.m.fault # NoFault THEN lt.m
        ELSE [Store(lt.m, token, [lt.m.heap[token] EXCEPT !.line_start = lt.at])
                EXCEPT !.stderr = Append(@, [what |-> "parser",
                                             anticipated |-> anticipated,
                                             found |-> m.heap[token].identity,
                                             text |-> lt.text])]

RECURSIVE StrnEq(_, _, _, _, _)
\* strncmp(start, literal, size) == 0
StrnEq(m, src, i, literal, k) ==
    IF k >= Len(literal) THEN TRUE
    ELSE Byte(m, src, i + k) = literal[k + 1] /\ StrnEq(m, src, i, literal, k + 1)

\* The result of a json_parser call: the machine, the Value (or NULL) and
\* where *tokens is left.
Parsed(m, ret, tok) == [m |-> m, ret |-> ret, tok |-> tok]

\* json_free(&element); return NULL;
FailFree(m, element, tok) == Parsed(json_free(m, element).m, NULL, tok)

\* json_free(&element); free(key); return NULL;
FailFreeKey(m, element, key, tok) ==
    Parsed(Free(json_free(m, element).m, key), NULL, tok)

\* Lines 2179-2181: *tokens = (*tokens)->next; return element;
StepAndReturn(m, element, tok) == Parsed(m, element, m.heap[tok].next)

\* Dereferencing *tokens when the list is exhausted.
NullToken(m) == Parsed(Fault(m, "null_deref"), NULL, NULL)

RECURSIVE json_parser(_, _, _)
RECURSIVE ObjectLoop(_, _, _, _)
RECURSIVE ArrayLoop(_, _, _, _)

\* Lines 2066-2079: the pair is stored; t3 is the token after the value.
ObjectAfterPair(m, src, t3, element) ==
    IF t3 = NULL THEN NullToken(m)
    ELSE IF m.heap[t3].identity = "JSON_TOKEN_COMMA"
    THEN ObjectLoop(m, src, json_gobble_whitespace(m, m.heap[t3].next), element)
    ELSE IF m.heap[t3].identity = "JSON_TOKEN_CURLY_CLOSE"
    THEN StepAndReturn(m, element, t3)
    ELSE FailFree(json_print_unexpected_token(m, src, t3, "comma or closing brace"),
                  element, t3)

\* Lines 2059-2065: s is what json_object_set(element->object, key, value)
\* returned.
ObjectAfterSet(s, src, key, value, tok, element) ==
    IF s.m.fault # NoFault THEN Parsed(s.m, NULL, tok)
    ELSE IF s.ret # 0
    THEN Parsed(Free(json_free(json_free(s.m, element).m, value).m, key), NULL, tok)
    ELSE ObjectAfterPair(s.m, src, json_gobble_whitespace(s.m, tok), element)

\* Lines 2047-2059: v is what json_parser returned for the member's value.
ObjectAfterValue(v, src, key, element) ==
    IF v.m.fault # NoFault THEN v
    ELSE IF v.ret = NULL THEN FailFreeKey(v.m, element, key, v.tok)
    ELSE IF v.m.heap[element].u = NULL THEN NullToken(v.m)
    ELSE ObjectAfterSet(json_object_set(v.m, v.m.heap[element].u, key, v.ret),
                        src, key, v.ret, v.tok, element)

\* Lines 2036-2047: t1 is the token after the key.
ObjectAfterKey(m, src, t1, key, element) ==
    IF t1 = NULL THEN NullToken(m)
    ELSE IF m.heap[t1].identity # "JSON_TOKEN_COLON"
    THEN FailFreeKey(json_print_unexpected_token(m, src, t1, "colon"),
                     element, key, t1)
    ELSE ObjectAfterValue(
             json_parser(m, src, json_gobble_whitespace(m, m.heap[t1].next)),
             src, key, element)

\* Lines 2027-2035: k is the key's copy made by json_string_view_to_cstring.
ObjectWithKey(k, src, t, element) ==
    IF k.m.fault # NoFault THEN Parsed(k.m, NULL, t)
    ELSE IF k.p = NULL THEN FailFree(k.m, element, t)
    ELSE ObjectAfterKey(k.m, src, json_gobble_whitespace(k.m, k.m.heap[t].next),
                        k.p, element)

\* while (1) of the object case, lines 2018-2080.
ObjectLoop(m, src, t, element) ==
    IF t = NULL THEN NullToken(m)
    ELSE IF m.heap[t].identity # "JSON_TOKEN_STRING"
    THEN FailFree(json_print_unexpected_token(m, src, t, "string"), element, t)
    ELSE ObjectWithKey(
             json_string_view_to_cstring(m, src, m.heap[t].start, m.heap[t].end),
             src, t, element)

\* Lines 2108-2121: t1 is the token after the element.
ArrayAfterElement(m, src, t1, element) ==
    IF t1 = NULL THEN NullToken(m)
    ELSE IF m.heap[t1].identity = "JSON_TOKEN_COMMA"
    THEN ArrayLoop(m, src, m.heap[t1].next, element)
    ELSE IF m.heap[t1].identity = "JSON_TOKEN_SQUARE_CLOSE"
    THEN StepAndReturn(m, element, t1)
    ELSE FailFree(json_print_unexpected_token(m, src, t1, "comma or closing bracket"),
                  element, t1)

\* Lines 2106-2111: m is the machine json_array_append leaves.
ArrayAfterAppend(m, src, tok, element) ==
    IF m.fault # NoFault THEN Parsed(m, NULL, tok)
    ELSE ArrayAfterElement(m, src, json_gobble_whitespace(m, tok), element)

\* Lines 2098-2107: v is what json_parser returned for the element.
ArrayAfterValue(v, src, element) ==
    IF v.m.fault # NoFault THEN v
    ELSE IF v.ret = NULL THEN FailFree(v.m, element, v.tok)
    ELSE ArrayAfterAppend(json_array_append(v.m, v.m.heap[element].u, v.ret),
                          src, v.tok, element)

\* while (1) of the array case, lines 2097-2122.
ArrayLoop(m, src, t, element) == ArrayAfterValue(json_parser(m, src, t), src, element)

\* Lines 2009-2016: t1 is the token after the opening brace.
ObjectOpened(m, src, t1, element) ==
    IF t1 = NULL THEN NullToken(m)
    ELSE IF m.heap[t1].identity = "JSON_TOKEN_CURLY_CLOSE"
    THEN StepAndReturn(m, element, t1)
    ELSE ObjectLoop(m, src, t1, element)

\* Lines 2004-2005: c is what json_create_object returned.
ObjectCreated(c, src, t, element) ==
    ObjectOpened(Store(c.m, element,
                       [c.m.heap[element] EXCEPT
                           !.identity = "JSON_OBJECT", !.uset = TRUE, !.u = c.ret]),
                 src, json_gobble_whitespace(c.m, c.m.heap[t].next), element)

\* case JSON_TOKEN_CURLY_OPEN, lines 2003-2016.
ParseObject(m, src, t, element) ==
    ObjectCreated(json_create_object(m, JSON_OBJECT_DEFAULT_SIZE), src, t, element)

\* Lines 2088-2095: t1 is the token after the opening bracket.
ArrayOpened(m, src, t1, element) ==
    IF t1 = NULL THEN NullToken(m)
    ELSE IF m.heap[t1].identity = "JSON_TOKEN_SQUARE_CLOSE"
    THEN StepAndReturn(m, element, t1)
    ELSE ArrayLoop(m, src, t1, element)

\* Lines 2083-2084: c is what json_create_array returned.
ArrayCreated(c, src, t, element) ==
    IF c.m.fault # NoFault THEN Parsed(c.m, NULL, t)
    ELSE ArrayOpened(Store(c.m, element,
                           [c.m.heap[element] EXCEPT
                               !.identity = "JSON_ARRAY", !.uset = TRUE, !.u = c.ret]),
                     src, json_gobble_whitespace(c.m, c.m.heap[t].next), element)

\* case JSON_TOKEN_SQUARE_OPEN, lines 2082-2095.
ParseArray(m, src, t, element) == ArrayCreated(json_create_array(m), src, t, element)

\* Lines 2127-2132: k is the copy of the string's span.
StringCopied(k, t, element) ==
    IF k.m.fault # NoFault THEN Parsed(k.m, NULL, t)
    ELSE IF k.p = NULL
    THEN FailFree(Store(k.m, element, [k.m.heap[element] EXCEPT !.uset = TRUE]),
                  element, t)
    ELSE StepAndReturn(Store(k.m, element,
                             [k.m.heap[element] EXCEPT !.uset = TRUE, !.u = k.p]),
                       element, t)

\* case JSON_TOKEN_STRING, lines 2125-2133.
ParseString(m, src, t, element) ==
    StringCopied(json_string_view_to_cstring(
                     Store(m, element, [m.heap[element] EXCEPT !.identity = "JSON_STRING"]),
                     src, m.heap[t].start, m.heap[t].end),
                 t, element)

\* Lines 2142-2149: k is the copy of the number's span.
NumberCopied(k, t, element) ==
    IF k.m.fault # NoFault THEN Parsed(k.m, NULL, t)
    ELSE IF k.p = NULL THEN FailFree(k.m, element, t)
    ELSE StepAndReturn(Free(Store(k.m, element,
                                  [k.m.heap[element] EXCEPT
                                      !.uset = TRUE, !.u = strtod(Str(k.m, k.p))]),
                            k.p),
                       element, t)

\* case JSON_TOKEN_NUMBER, lines 2135-2150.
ParseNumber(m, src, t, element) ==
    NumberCopied(json_string_view_to_cstring(
                     Store(m, element, [m.heap[element] EXCEPT !.identity = "JSON_NUMBER"]),
                     src, m.heap[t].start, m.heap[t].end),
                 t, element)

\* element->boolean = b
SetBoolean(m, element, b) ==
    Store(m, element, [m.heap[element] EXCEPT
                          !.identity = "JSON_BOOLEAN", !.uset = TRUE, !.u = b])

\* case JSON_TOKEN_BOOLEAN, lines 2152-2165.
ParseBoolean(m, src, t, element) ==
    IF m.heap[t].end - m.heap[t].start = 4
       /\ StrnEq(m, src, m.heap[t].start, <<"t", "r", "u", "e">>, 0)
    THEN StepAndReturn(SetBoolean(m, element, 1), element, t)
    ELSE IF m.heap[t].end - m.heap[t].start = 5
            /\ StrnEq(m, src, m.heap[t].start, <<"f", "a", "l", "s", "e">>, 0)
    THEN StepAndReturn(SetBoolean(m, element, 0), element, t)
    ELSE FailFree(Store(m, element,
                        [m.heap[element] EXCEPT !.identity = "JSON_BOOLEAN"]),
                  element, t)

\* The switch of lines 2000-2177 on the token t, for the new node a.p.
ParserSwitch(a, src, t) ==
    IF a.p = NULL THEN Parsed(a.m, NULL, t)
    ELSE CASE a.m.heap[t].identity = "JSON_TOKEN_CURLY_OPEN" ->
                ParseObject(a.m, src, t, a.p)
           [] a.m.heap[t].identity = "JSON_TOKEN_SQUARE_OPEN" ->
                ParseArray(a.m, src, t, a.p)
           [] a.m.heap[t].identity = "JSON_TOKEN_STRING" ->
                ParseString(a.m, src, t, a.p)
           [] a.m.heap[t].identity = "JSON_TOKEN_NUMBER" ->
                ParseNumber(a.m, src, t, a.p)
           [] a.m.heap[t].identity = "JSON_TOKEN_BOOLEAN" ->
                ParseBoolean(a.m, src, t, a.p)
           [] a.m.heap[t].identity = "JSON_TOKEN_NULL" ->
                StepAndReturn(Store(a.m, a.p,
                                    [FreshValue EXCEPT !.identity = "JSON_NULL"]),
                              a.p, t)
           [] OTHER ->
                FailFree(json_print_unexpected_token(a.m, src, t,
                             "null, boolean, number, string, open braces, open bracket"),
                         a.p, t)

\* Lines 1987-1997: t is *tokens after json_gobble_whitespace.
ParserAt(m, src, t) ==
    IF t = NULL THEN Parsed(m, NULL, NULL)
    ELSE ParserSwitch(Malloc(m, FreshValue), src, t)

json_parser(m, src, tokens) ==
    IF m.fault # NoFault \/ tokens = NULL THEN Parsed(m, NULL, tokens)
    ELSE ParserAt(m, src, json_gobble_whitespace(m, tokens))


\* ------------------------------------------------------------- idle values

NoGet == [key |-> <<>>, ret |-> NULL, hang |-> FALSE, done |-> FALSE]

MapIdle == map = NULL /\ sets = <<>> /\ lastGet = NoGet
ArrayIdle == arr = NULL /\ appended = <<>> /\ printed = <<>>
LoadIdle == source = <<>> /\ head = NULL /\ cursor = NULL /\ root = NULL /\ doc = 0
TreeIdle ==
    treeRoot = [type |-> "NULL"] /\ treeText = <<>> /\ treeBack = [type |-> "NULL"]


\* --------------------------------------------------------------- the inputs

\* The value trees the texts stand for.
TNumber(neg, mant, exp) == [t |-> "number", n |-> [neg |-> neg, mant |-> mant, exp |-> exp]]
TString(s) == [t |-> "string", s |-> s]
TBoolean(b) == [t |-> "boolean", b |-> b]
TNull == [t |-> "null"]
TArray(items) == [t |-> "array", items |-> items]
TObject(members) == [t |-> "object", members |-> members]
TNone == [t |-> "none"]

Doc(text, class, tree) == [text |-> text, class |-> class, tree |-> tree]

\* The files json_load is given.  class "wf": well-formed JSON, with the tree
\* it stands for; "truncated": the tokens end before the value is complete;
\* "unterminated": a string without its closing quote; "closer": a } or ]
\* where a value is expected; "trailing": one value followed by further
\* tokens; "repeated": an object text that repeats a key; "other": malformed
\* otherwise.
Docs ==
    <<
      \* {"a":1,"b":[true,false,null]}
      Doc(<<"{", "\"", "a", "\"", ":", "1", ",", "\"", "b", "\"", ":", "[", "t", "r", "u", "e", ",", "f", "a", "l", "s", "e", ",", "n", "u", "l", "l", "]", "}">>,
          "wf", TObject(<<<<<<"a">>, TNumber(FALSE, 1, 0)>>, <<<<"b">>, TArray(<<TBoolean(TRUE), TBoolean(FALSE), TNull>>)>>>>)),
      \* 1
      Doc(<<"1">>,
          "wf", TNumber(FALSE, 1, 0)),
      \* 10
      Doc(<<"1", "0">>,
          "wf", TNumber(FALSE, 1, 1)),
      \* 1.5
      Doc(<<"1", ".", "5">>,
          "wf", TNumber(FALSE, 15, -1)),
      \* 1e2
      Doc(<<"1", "e", "2">>,
          "wf", TNumber(FALSE, 1, 2)),
      \* 0
      Doc(<<"0">>,
          "wf", TNumber(FALSE, 0, 0)),
      \* -1
      Doc(<<"-", "1">>,
          "wf", TNumber(TRUE, 1, 0)),
      \* -0.5
      Doc(<<"-", "0", ".", "5">>,
          "wf", TNumber(TRUE, 5, -1)),
      \* "a"
      Doc(<<"\"", "a", "\"">>,
          "wf", TString(<<"a">>)),
      \* ""
      Doc(<<"\"", "\"">>,
          "wf", TString(<<>>)),
      \* true
      Doc(<<"t", "r", "u", "e">>,
          "wf", TBoolean(TRUE)),
      \* false
      Doc(<<"f", "a", "l", "s", "e">>,
          "wf", TBoolean(FALSE)),
      \* null
      Doc(<<"n", "u", "l", "l">>,
          "wf", TNull),
      \* []
      Doc(<<"[", "]">>,
          "wf", TArray(<<>>)),
      \* {}
      Doc(<<"{", "}">>,
          "wf", TObject(<<>>)),
      \* [0]
      Doc(<<"[", "0", "]">>,
          "wf", TArray(<<TNumber(FALSE, 0, 0)>>)),
      \* [1,2]
      Doc(<<"[", "1", ",", "2", "]">>,
          "wf", TArray(<<TNumber(FALSE, 1, 0), TNumber(FALSE, 2, 0)>>)),
      \* [1,"a"]
      Doc(<<"[", "1", ",", "\"", "a", "\"", "]">>,
          "wf", TArray(<<TNumber(FALSE, 1, 0), TString(<<"a">>)>>)),
      \* {"a":1}
      Doc(<<"{", "\"", "a", "\"", ":", "1", "}">>,
          "wf", TObject(<<<<<<"a">>, TNumber(FALSE, 1, 0)>>>>)),
      \* {"":1,"bb":2}
      Doc(<<"{", "\"", "\"", ":", "1", ",", "\"", "b", "b", "\"", ":", "2", "}">>,
          "wf", TObject(<<<<<<>>, TNumber(FALSE, 1, 0)>>, <<<<"b", "b">>, TNumber(FALSE, 2, 0)>>>>)),
      \* {"a":{"b":[]}}
      Doc(<<"{", "\"", "a", "\"", ":", "{", "\"", "b", "\"", ":", "[", "]", "}", "}">>,
          "wf", TObject(<<<<<<"a">>, TObject(<<<<<<"b">>, TArray(<<>>)>>>>)>>>>)),
      \* [[1],[]]
      Doc(<<"[", "[", "1", "]", ",", "[", "]", "]">>,
          "wf", TArray(<<TArray(<<TNumber(FALSE, 1, 0)>>), TArray(<<>>)>>)),
      \*  [ 1 ,\n2 ]\n
      Doc(<<" ", "[", " ", "1", " ", ",", "\n", "2", " ", "]", "\n">>,
          "wf", TArray(<<TNumber(FALSE, 1, 0), TNumber(FALSE, 2, 0)>>)),
      \* {"a":"b","b":true}
      Doc(<<"{", "\"", "a", "\"", ":", "\"", "b", "\"", ",", "\"", "b", "\"", ":", "t", "r", "u", "e", "}">>,
          "wf", TObject(<<<<<<"a">>, TString(<<"b">>)>>, <<<<"b">>, TBoolean(TRUE)>>>>)),
      \* {
      Doc(<<"{">>,
          "truncated", TNone),
      \* [
      Doc(<<"[">>,
          "truncated", TNone),
      \* [1
      Doc(<<"[", "1">>,
          "truncated", TNone),
      \* {"a"
      Doc(<<"{", "\"", "a", "\"">>,
          "truncated", TNone),
      \* {"a":1
      Doc(<<"{", "\"", "a", "\"", ":", "1">>,
          "truncated", TNone),
      \* {"a":
      Doc(<<"{", "\"", "a", "\"", ":">>,
          "truncated", TNone),
      \* [1,
      Doc(<<"[", "1", ",">>,
          "truncated", TNone),
      \* [[1]
      Doc(<<"[", "[", "1", "]">>,
          "truncated", TNone),
      \* {"a":1,
      Doc(<<"{", "\"", "a", "\"", ":", "1", ",">>,
          "truncated", TNone),
      \* [ 
      Doc(<<"[", " ">>,
          "truncated", TNone),
      \* {"a":[
      Doc(<<"{", "\"", "a", "\"", ":", "[">>,
          "truncated", TNone),
      \* "unterminated
      Doc(<<"\"", "u", "n", "t", "e", "r", "m", "i", "n", "a", "t", "e", "d">>,
          "unterminated", TNone),
      \* "a
      Doc(<<"\"", "a">>,
          "unterminated", TNone),
      \* ["a
      Doc(<<"[", "\"", "a">>,
          "unterminated", TNone),
      \* {"a
      Doc(<<"{", "\"", "a">>,
          "unterminated", TNone),
      \* "a\"
      Doc(<<"\"", "a", "\\", "\"">>,
          "unterminated", TNone),
      \* "
      Doc(<<"\"">>,
          "unterminated", TNone),
      \* {"a":"b
      Doc(<<"{", "\"", "a", "\"", ":", "\"", "b">>,
          "unterminated", TNone),
      \* {"a":}
      Doc(<<"{", "\"", "a", "\"", ":", "}">>,
          "closer", TNone),
      \* [1, 2, 3,]
      Doc(<<"[", "1", ",", " ", "2", ",", " ", "3", ",", "]">>,
          "closer", TNone),
      \* }
      Doc(<<"}">>,
          "closer", TNone),
      \* ]
      Doc(<<"]">>,
          "closer", TNone),
      \* [}
      Doc(<<"[", "}">>,
          "closer", TNone),
      \* [1,}
      Doc(<<"[", "1", ",", "}">>,
          "closer", TNone),
      \* {"a":]
      Doc(<<"{", "\"", "a", "\"", ":", "]">>,
          "closer", TNone),
      \* {"a":1,"b":}
      Doc(<<"{", "\"", "a", "\"", ":", "1", ",", "\"", "b", "\"", ":", "}">>,
          "closer", TNone),
      \* [[],]
      Doc(<<"[", "[", "]", ",", "]">>,
          "closer", TNone),
      \* x
      Doc(<<"x">>,
          "other", TNone),
      \* [x]
      Doc(<<"[", "x", "]">>,
          "other", TNone),
      \* tru
      Doc(<<"t", "r", "u">>,
          "other", TNone),
      \* [1 2]
      Doc(<<"[", "1", " ", "2", "]">>,
          "other", TNone),
      \* {1:1}
      Doc(<<"{", "1", ":", "1", "}">>,
          "other", TNone),
      \* {"a" 1}
      Doc(<<"{", "\"", "a", "\"", " ", "1", "}">>,
          "other", TNone),
      \* {"a":1 "b"}
      Doc(<<"{", "\"", "a", "\"", ":", "1", " ", "\"", "b", "\"", "}">>,
          "other", TNone),
      \* (empty)
      Doc(<<>>,
          "other", TNone),
      \* nul
      Doc(<<"n", "u", "l">>,
          "other", TNone),
      \* fals
      Doc(<<"f", "a", "l", "s">>,
          "other", TNone),
      \* 3.14e-2
      Doc(<<"3", ".", "1", "4", "e", "-", "2">>,
          "wf", TNumber(FALSE, 314, -4)),
      \* -0
      Doc(<<"-", "0">>,
          "wf", TNumber(FALSE, 0, 0)),
      \* 0.5
      Doc(<<"0", ".", "5">>,
          "wf", TNumber(FALSE, 5, -1)),
      \* 1E+2
      Doc(<<"1", "E", "+", "2">>,
          "wf", TNumber(FALSE, 1, 2)),
      \* -10
      Doc(<<"-", "1", "0">>,
          "wf", TNumber(TRUE, 1, 1)),
      \* [] []
      Doc(<<"[", "]", " ", "[", "]">>,
          "trailing", TNone),
      \* 1 2
      Doc(<<"1", " ", "2">>,
          "trailing", TNone),
      \* null,
      Doc(<<"n", "u", "l", "l", ",">>,
          "trailing", TNone),
      \* {"a":1,"a":2}
      Doc(<<"{", "\"", "a", "\"", ":", "1", ",", "\"", "a", "\"", ":", "2", "}">>,
          "repeated", TNone),
      \* {"a":"b","a":[1]}
      Doc(<<"{", "\"", "a", "\"", ":", "\"", "b", "\"", ",", "\"", "a", "\"", ":", "[", "1", "]", "}">>,
          "repeated", TNone),
      \* [1]
      Doc(<<"[", "1", "]">>,
          "wf", TArray(<<TNumber(FALSE, 1, 0)>>)),
      \* [1,2,3]
      Doc(<<"[", "1", ",", "2", ",", "3", "]">>,
          "wf", TArray(<<TNumber(FALSE, 1, 0), TNumber(FALSE, 2, 0),
                         TNumber(FALSE, 3, 0)>>)),
      \* nope
      Doc(<<"n", "o", "p", "e">>,
          "other", TNone),
      \* trux
      Doc(<<"t", "r", "u", "x">>,
          "other", TNone),
      \* [nuke]
      Doc(<<"[", "n", "u", "k", "e", "]">>,
          "other", TNone),
      \* [1,<LF>x]
      Doc(<<"[", "1", ",", "\n", "x", "]">>,
          "other", TNone),
      \* <LF><LF>[x
      Doc(<<"\n", "\n", "[", "x">>,
          "other", TNone),
      \* { }
      Doc(<<"{", " ", "}">>,
          "wf", TObject(<<>>)),
      \* [ ]
      Doc(<<"[", " ", "]">>,
          "wf", TArray(<<>>)),
      \* {<TAB><LF>}
      Doc(<<"{", "\t", "\n", "}">>,
          "wf", TObject(<<>>)),
      \* [<CR><LF> ]
      Doc(<<"[", "\r", "\n", " ", "]">>,
          "wf", TArray(<<>>))
    >>

\* ------------------------------------------- specification of the hash table

\* The keys the callers use: "", "a", "ab", "bb", "b".
Keys == << <<>>, <<"a">>, <<"a", "b">>, <<"b", "b">>, <<"b">> >>

\* The string literals of the callers: Keys[i] lives at address i.
MachineWithLiterals ==
    [Machine0 EXCEPT !.heap = [i \in 1 .. Len(Keys) |-> CString(Keys[i])],
                     !.brk = Len(Keys) + 1]

InitMap ==
    /\ mach = MachineWithLiterals
    /\ pc = "create"
    /\ MapIdle /\ ArrayIdle /\ LoadIdle /\ TreeIdle

\* json_create_object(c) for a capacity c >= 1.
MapCreate ==
    /\ pc = "create"
    /\ \E c \in 1 .. MaxCap :
          LET r == json_create_object(mach, c)
          IN  /\ mach' = r.m
              /\ map' = r.ret
              /\ pc' = "ready"
    /\ UNCHANGED <<sets, lastGet, arr, appended, printed, source, head, cursor, root, doc, treeRoot, treeText, treeBack>>

\* The caller of json_object_set as in json_parser's object loop: the key is a
\* fresh C string, the value a fresh Value node, and both are handed to the map.
MapSet ==
    /\ pc = "ready"
    /\ Len(sets) < MaxSets
    /\ \E i \in 1 .. Len(Keys) :
          LET k == Malloc(mach, CString(Keys[i]))
              v == Malloc(k.m, [FreshValue EXCEPT !.identity = "JSON_NULL"])
              r == json_object_set(v.m, map, k.p, v.p)
          IN  /\ mach' = r.m
              /\ sets' = Append(sets, [key |-> k.p, value |-> v.p, ret |-> r.ret])
              /\ lastGet' = NoGet
    /\ UNCHANGED <<pc, map, arr, appended, printed, source, head, cursor, root, doc, treeRoot, treeText, treeBack>>

\* json_object_get with one of the callers' literals.
MapGet ==
    /\ pc = "ready"
    /\ \E i \in 1 .. Len(Keys) :
          LET g == json_object_get(mach, map, i)
          IN  lastGet' = [key |-> Keys[i], ret |-> g.ret, hang |-> g.hang, done |-> TRUE]
    /\ UNCHANGED <<mach, pc, map, sets, arr, appended, printed, source, head, cursor, root, doc, treeRoot, treeText, treeBack>>

NextMap == MapCreate \/ MapSet \/ MapGet

SpecMap == InitMap /\ [][NextMap]_vars

\* ------------------------------------------------ specification of the array

\* malloc may hand out any free address: it skips up to MaxGap addresses.
MaxGap == 2

InitArray ==
    /\ mach = Machine0
    /\ pc = "create"
    /\ MapIdle /\ ArrayIdle /\ LoadIdle /\ TreeIdle

ArrayCreate ==
    /\ pc = "create"
    /\ \E gap \in 0 .. MaxGap :
          LET r == json_create_array([mach EXCEPT !.brk = @ + gap])
          IN  /\ mach' = r.m
              /\ arr' = r.ret
              /\ pc' = "ready"
    /\ UNCHANGED <<map, sets, lastGet, appended, printed, source, head, cursor, root, doc, treeRoot, treeText, treeBack>>

\* The caller of json_array_append as in json_parser's array loop: a fresh
\* Value node is appended.
ArrayAppend ==
    /\ pc = "ready"
    /\ Len(appended) < MaxAppend
    /\ \E gap \in 0 .. MaxGap :
          LET v == Malloc(mach, [FreshValue EXCEPT !.identity = "JSON_NULL"])
          IN  /\ mach' = json_array_append([v.m EXCEPT !.brk = @ + gap], arr, v.p)
              /\ appended' = Append(appended, v.p)
              /\ printed' = <<>>
    /\ UNCHANGED <<pc, map, sets, lastGet, arr, source, head, cursor, root, doc, treeRoot, treeText, treeBack>>

\* json_print_array: the forward traversal.
ArrayPrint ==
    /\ pc = "ready"
    /\ LET r == json_print_array(mach, arr)
       IN  /\ mach' = r.m
           /\ printed' = r.out
           /\ pc' = "printed"
    /\ UNCHANGED <<map, sets, lastGet, arr, appended, source, head, cursor, root, doc, treeRoot, treeText, treeBack>>

\* The caller goes on using the array after printing it.
ArrayResume ==
    /\ pc = "printed"
    /\ pc' = "ready"
    /\ printed' = <<>>
    /\ UNCHANGED <<mach, map, sets, lastGet, arr, appended, source, head, cursor, root, doc, treeRoot, treeText, treeBack>>

NextArray == ArrayCreate \/ ArrayAppend \/ ArrayPrint \/ ArrayResume

SpecArray == InitArray /\ [][NextArray]_vars


\* ----------------------------------------------- specification of json_load

\* Most bytes of foreign memory mapped behind the source buffer.
MaxBeyond == 2

\* What the memory behind the buffer's terminator may hold.
RECURSIVE BeyondBytes(_)
BeyondBytes(n) ==
    IF n = 0 THEN {<<>>}
    ELSE LET shorter == BeyondBytes(n - 1)
         IN  shorter \cup {Append(b, c) : b \in shorter, c \in {NUL, "\"", "x"}}

\* What an uninitialised Value node may hold.
Garbage == [identity : ValueTags \cup {"other"}, null : BOOLEAN]

\* The machine as the state keeps it: the choices made for one call are over.
Settled(m) == [m EXCEPT !.beyond = <<>>, !.garbage = Machine0.garbage, !.oom = -1]

InitLoad ==
    /\ mach = Machine0
    /\ pc = "idle"
    /\ MapIdle /\ ArrayIdle /\ LoadIdle /\ TreeIdle

\* json_read_entire_file_to_cstr: the file's bytes in a buffer of size + 1.
LoadRead ==
    /\ pc = "idle"
    /\ \E d \in DOMAIN Docs :
          /\ doc' = d
          /\ source' = Docs[d].text
          /\ mach' = Malloc(mach, [kind |-> "data", bytes |-> Docs[d].text]).m
    /\ pc' = "read"
    /\ UNCHANGED <<map, sets, lastGet, arr, appended, printed, head, cursor, root, treeRoot, treeText, treeBack>>

\* The buffer json_load holds (its first allocation).
data == 1

\* Lines 2275-2281: r is what json_lexer returned; on NULL the buffer is
\* freed and json_load returns NULL.
LexReturned(r) ==
    IF r.m.fault # NoFault
    THEN /\ mach' = Settled(r.m)
         /\ pc' = "crashed"
         /\ UNCHANGED <<head, cursor>>
    ELSE IF r.ret = NULL
    THEN /\ mach' = Settled(Free(r.m, data))
         /\ pc' = "rejected"
         /\ UNCHANGED <<head, cursor>>
    ELSE /\ mach' = Settled(r.m)
         /\ pc' = "lexed"
         /\ head' = r.ret
         /\ cursor' = r.ret

\* Line 2275: tokens = json_lexer(data, size).
LoadLex ==
    /\ pc = "read"
    /\ \E b \in BeyondBytes(MaxBeyond) :
          LexReturned(json_lexer([mach EXCEPT !.beyond = b], source, Len(source)))
    /\ UNCHANGED <<map, sets, lastGet, arr, appended, printed, source, root, doc, treeRoot, treeText, treeBack>>

\* r is what json_parser returned.
ParseReturned(r) ==
    /\ mach' = Settled(r.m)
    /\ pc' = IF r.m.fault # NoFault THEN "crashed" ELSE "parsed"
    /\ root' = r.ret
    /\ cursor' = r.tok

\* Line 2285: json = json_parser(&tokens).
LoadParse ==
    /\ pc = "lexed"
    /\ \E g \in Garbage :
          ParseReturned(json_parser([mach EXCEPT !.garbage = g], source, cursor))
    /\ UNCHANGED <<map, sets, lastGet, arr, appended, printed, source, head, doc, treeRoot, treeText, treeBack>>

\* m is the machine json_free_all_the_tokens(&head) leaves.
TokensFreed(m) ==
    IF m.fault # NoFault
    THEN mach' = m /\ pc' = "crashed" /\ UNCHANGED head
    ELSE mach' = Free(m, data) /\ pc' = "done" /\ head' = NULL

\* Lines 2286-2296: json_free_all_the_tokens(&head); free(data); return json.
LoadCleanup ==
    /\ pc = "parsed"
    /\ TokensFreed(json_free_all_the_tokens(mach, head))
    /\ UNCHANGED <<map, sets, lastGet, arr, appended, printed, source, cursor, root, doc, treeRoot, treeText, treeBack>>

\* json_free without its last line: *json keeps the pointer it had.
TreeFreed_KeepsPointer(f) ==
    /\ mach' = Settled(f.m)
    /\ root' = root
    /\ pc' = IF f.m.fault # NoFault THEN "crashed" ELSE "released"

\* f is what json_free(&json) did.
TreeFreed(f) ==
    /\ mach' = Settled(f.m)
    /\ root' = f.ptr
    /\ pc' = IF f.m.fault # NoFault THEN "crashed" ELSE "released"

\* The caller of json_load releases the tree with json_free(&json).
LoadRelease ==
    /\ pc = "done"
    /\ root # NULL
    /\ \E g \in Garbage : TreeFreed(json_free([mach EXCEPT !.garbage = g], root))
    /\ UNCHANGED <<map, sets, lastGet, arr, appended, printed, source, head, cursor, doc, treeRoot, treeText, treeBack>>

\* f is what a further json_free(&json) did.
FreedAgain(f) ==
    /\ mach' = Settled(f.m)
    /\ root' = f.ptr
    /\ pc' = IF f.m.fault # NoFault THEN "crashed" ELSE "again"

\* The caller calls json_free(&json) once more: after the release, or on the
\* NULL json_load returned.
LoadReleaseAgain ==
    /\ pc \in {"done", "released"}
    /\ pc = "done" => root = NULL
    /\ \E g \in Garbage : FreedAgain(json_free([mach EXCEPT !.garbage = g], root))
    /\ UNCHANGED <<map, sets, lastGet, arr, appended, printed, source, head, cursor, doc, treeRoot, treeText, treeBack>>

Next ==
    LoadRead \/ LoadLex \/ LoadParse \/ LoadCleanup \/ LoadRelease \/ LoadReleaseAgain

Spec == InitLoad /\ [][Next]_vars

\* ---- json_load on well-formed text when one allocation fails ----

\* The allocation that fails is one of the first MaxFail + 1 of a call.
MaxFail == 6

\* json_read_entire_file_to_cstr on a well-formed file.
OomRead ==
    /\ pc = "idle"
    /\ \E d \in {e \in DOMAIN Docs : Docs[e].class = "wf"} :
          /\ doc' = d
          /\ source' = Docs[d].text
          /\ mach' = Malloc(mach, [kind |-> "data", bytes |-> Docs[d].text]).m
    /\ pc' = "read"
    /\ UNCHANGED <<map, sets, lastGet, arr, appended, printed, head, cursor, root, treeRoot, treeText, treeBack>>

\* Line 2275 when the (n + 1)-th malloc of json_lexer returns NULL.
OomLex ==
    /\ pc = "read"
    /\ \E n \in 0 .. MaxFail :
          LexReturned(json_lexer([mach EXCEPT !.oom = n], source, Len(source)))
    /\ UNCHANGED <<map, sets, lastGet, arr, appended, printed, source, root, doc, treeRoot, treeText, treeBack>>

\* Line 2285 when the (n + 1)-th malloc of json_parser returns NULL.
OomParse ==
    /\ pc = "lexed"
    /\ \E n \in 0 .. MaxFail : \E g \in Garbage :
          ParseReturned(json_parser([mach EXCEPT !.oom = n, !.garbage = g],
                                    source, cursor))
    /\ UNCHANGED <<map, sets, lastGet, arr, appended, printed, source, head, doc, treeRoot, treeText, treeBack>>

NextOom == OomRead \/ OomLex \/ OomParse \/ LoadCleanup

SpecOom == InitLoad /\ [][NextOom]_vars

\* ------------------------ the single-header library of src/unnamed/part_001
\* (lines 1020-1638).  Its Values are kept as records: the member of the
\* union that the tag selects, an object's and an array's items in order.

\* A json_value* that is NULL.
NoValue == [type |-> "NULL"]

json_new_string(s) == [type |-> "JSON_STRING", string |-> s]
json_new_number(n) == [type |-> "JSON_NUMBER", number |-> n]
json_new_boolean(b) == [type |-> "JSON_BOOL", boolean |-> IF b # 0 THEN 1 ELSE 0]
json_new_null == [type |-> "JSON_NULL"]
json_new_object == [type |-> "JSON_OBJECT", items |-> <<>>]
json_new_array == [type |-> "JSON_ARRAY", items |-> <<>>]

\* The index of the first item whose key strcmp finds equal to key, or 0.
KeyIndex(items, key) ==
    IF \E i \in DOMAIN items : items[i].key = key
    THEN CHOOSE i \in DOMAIN items :
            /\ items[i].key = key
            /\ \A j \in 1 .. i - 1 : items[j].key # key
    ELSE 0

\* json_get: the value of the first item with the key, or NULL.
json_get(obj, key) ==
    IF obj.type # "JSON_OBJECT" \/ KeyIndex(obj.items, key) = 0 THEN NoValue
    ELSE obj.items[KeyIndex(obj.items, key)].val

\* json_set: replaces the value of an existing key, or appends the pair.
json_set(obj, key, val) ==
    IF obj.type # "JSON_OBJECT" THEN obj
    ELSE IF KeyIndex(obj.items, key) # 0
    THEN [obj EXCEPT !.items[KeyIndex(obj.items, key)].val = val]
    ELSE [obj EXCEPT !.items = Append(@, [key |-> key, val |-> val])]

\* ---- printf("%g")

RECURSIVE NatChars(_)
\* The decimal digits of a natural number.
NatChars(k) ==
    LET d == <<"0", "1", "2", "3", "4", "5", "6", "7", "8", "9">>[(k % 10) + 1]
    IN  IF k < 10 THEN <<d>> ELSE Append(NatChars(k \div 10), d)

RECURSIVE Pow10(_)
Pow10(n) == IF n = 0 THEN 1 ELSE 10 * Pow10(n - 1)

Zeros(n) == [i \in 1 .. n |-> "0"]

\* The number rounded to the six significant digits %g prints (to nearest,
\* ties to even; the numbers of the model are exact in binary).
SixDigits(n) ==
    LET d == Len(NatChars(n.mant))
        unit == Pow10(d - 6)
        q == n.mant \div unit
        r == n.mant % unit
    IN  IF d <= 6 THEN n
        ELSE Normal(n.neg,
                    IF 2 * r > unit \/ (2 * r = unit /\ q % 2 = 1) THEN q + 1 ELSE q,
                    n.exp + d - 6)

\* ds are the digits of r.mant and x the exponent of the first digit: the
\* style e when x < -4 or x >= 6, the style f otherwise, without trailing
\* zeros.
FormatDigits(r, ds, x) ==
    (IF r.neg THEN <<"-">> ELSE <<>>) \o
    (IF x < -4 \/ x >= 6
     THEN <<ds[1]>> \o (IF Len(ds) > 1 THEN <<".">> \o SubSeq(ds, 2, Len(ds)) ELSE <<>>)
          \o <<"e", IF x < 0 THEN "-" ELSE "+">>
          \o (IF x < 10 /\ x > -10 THEN <<"0">> ELSE <<>>)
          \o NatChars(IF x < 0 THEN 0 - x ELSE x)
     ELSE IF r.exp >= 0 THEN ds \o Zeros(r.exp)
     ELSE IF x >= 0 THEN SubSeq(ds, 1, x + 1) \o <<".">> \o SubSeq(ds, x + 2, Len(ds))
     ELSE <<"0", ".">> \o Zeros(0 - x - 1) \o ds)

\* What "%g" prints for the number.
FormatG(n) ==
    IF n.mant = 0 THEN <<"0">>
    ELSE FormatDigits(SixDigits(n), NatChars(SixDigits(n).mant),
                      Len(NatChars(SixDigits(n).mant)) - 1 + SixDigits(n).exp)

\* ---- json_to_string

\* json__append_string hands its va_list to vsnprintf twice (lines 1461 and
\* 1476) without va_copy, so that the second call reads the arguments from an
\* indeterminate list.  What a build makes of a format with a conversion:
\* "kept" (the list is passed by value: the arguments are read again),
\* "garbage" (other bytes are printed in their place), "segv" (the read of a
\* %s argument faults).
VaOutcomes == {"kept", "garbage", "segv"}

\* The bytes one %s or %g conversion leaves in the buffer for the text arg.
Conversion(arg, va) == IF va = "kept" THEN arg ELSE [i \in 1 .. Len(arg) |-> "?"]

RECURSIVE json__to_string_helper(_, _)
RECURSIVE ObjectText(_, _, _)
RECURSIVE ArrayText(_, _, _)

\* The loop of the JSON_OBJECT case from item i on: "key":value and a comma
\* between two items.  %s prints the key's bytes as they are.
ObjectText(items, i, va) ==
    IF i > Len(items) THEN <<>>
    ELSE <<"\"">> \o Conversion(items[i].key, va) \o <<"\"", ":">>
         \o json__to_string_helper(items[i].val, va)
         \o (IF i + 1 <= Len(items) THEN <<",">> ELSE <<>>)
         \o ObjectText(items, i + 1, va)

\* The loop of the JSON_ARRAY case from item i on.
ArrayText(items, i, va) ==
    IF i > Len(items) THEN <<>>
    ELSE json__to_string_helper(items[i], va)
         \o (IF i + 1 <= Len(items) THEN <<",">> ELSE <<>>)
         \o ArrayText(items, i + 1, va)

json__to_string_helper(v, va) ==
    CASE v.type = "JSON_OBJECT" -> <<"{">> \o ObjectText(v.items, 1, va) \o <<"}">>
      [] v.type = "JSON_ARRAY" -> <<"[">> \o ArrayText(v.items, 1, va) \o <<"]">>
      [] v.type = "JSON_STRING" -> <<"\"">> \o Conversion(v.string, va) \o <<"\"">>
      [] v.type = "JSON_NUMBER" -> Conversion(FormatG(v.number), va)
      [] v.type = "JSON_BOOL" ->
            IF v.boolean # 0 THEN <<"t", "r", "u", "e">>
            ELSE <<"f", "a", "l", "s", "e">>
      [] v.type = "JSON_NULL" -> <<"n", "u", "l", "l">>
      [] OTHER -> <<>>

RECURSIVE HasConversion(_)
\* Printing the value takes a format with a conversion: a key, a string or
\* a number is printed.
HasConversion(v) ==
    \/ v.type \in {"JSON_STRING", "JSON_NUMBER"}
    \/ /\ v.type = "JSON_OBJECT"
       /\ v.items # <<>>
    \/ /\ v.type = "JSON_ARRAY"
       /\ \E i \in DOMAIN v.items : HasConversion(v.items[i])

\* The bytes of the buffer json_to_string returns, without the terminator.
json_to_string(v, va) ==
    IF va = "segv" /\ HasConversion(v) THEN [text |-> <<>>, fault |-> TRUE]
    ELSE [text |-> json__to_string_helper(v, va), fault |-> FALSE]

\* ---- json_from_string

\* A result of the parse functions: the value (for json__parse_string the
\* text), the position json_buffer is left at, and whether the execution
\* left defined behaviour (a read behind the terminator, a loop without end).
\* hang: the execution is in a loop that no byte of the input ends.
Result(v, p) == [v |-> v, p |-> p, fault |-> FALSE, hang |-> FALSE]
Lost(p) == [v |-> NoValue, p |-> p, fault |-> TRUE, hang |-> FALSE]
Hung(p) == [v |-> NoValue, p |-> p, fault |-> TRUE, hang |-> TRUE]

\* isspace in the C locale.
Space == {" ", "\t", "\n", "\f", "\r"}

RECURSIVE json__skip_whitespace(_, _)
json__skip_whitespace(buf, p) ==
    IF CharAt(buf, p) \in Space THEN json__skip_whitespace(buf, p + 1) ELSE p

RECURSIVE StringStop(_, _)
\* The while loop of json__parse_string from p on: where it stops (at a quote,
\* or at a backslash that a quote follows), -1 when it walks over the
\* terminator.
StringStop(buf, p) ==
    IF p >= Len(buf) THEN -1
    ELSE IF buf[p + 1] = "\"" \/ (buf[p + 1] = "\\" /\ CharAt(buf, p + 1) = "\"")
    THEN p
    ELSE StringStop(buf, p + 1)

\* e is where the loop stopped: the l = e - s bytes from s on are copied and
\* json_buffer steps over one byte.
StringCopy(buf, s, e) ==
    IF e = -1 THEN Lost(Len(buf)) ELSE Result(SubSeq(buf, s + 1, e), e + 1)

\* json__parse_string with json_buffer at the opening quote.
json__parse_string(buf, p) == StringCopy(buf, p + 1, StringStop(buf, p + 1))

\* The offset strtod stores through its second argument.
strtod_end(str) ==
    LET sign == IF CharAt(str, 0) \in {"-", "+"} THEN 1 ELSE 0
        ip == DigitRun(str, sign, 0, 0)
        fp == IF CharAt(str, ip.p) = "."
              THEN DigitRun(str, ip.p + 1, 0, ip.acc)
              ELSE [n |-> 0, acc |-> ip.acc, p |-> ip.p]
        es == IF CharAt(str, fp.p) \in {"e", "E"}
              THEN IF CharAt(str, fp.p + 1) \in {"-", "+"} THEN fp.p + 2 ELSE fp.p + 1
              ELSE fp.p
        ep == IF es > fp.p THEN DigitRun(str, es, 0, 0) ELSE [n |-> 0, acc |-> 0, p |-> es]
    IN  IF ip.n + fp.n = 0 THEN 0
        ELSE IF ep.n = 0 THEN fp.p ELSE ep.p

\* json__parse_number: strtod(json_buffer, &e); json_buffer = e.
json__parse_number(buf, p) ==
    Result(json_new_number(strtod(SubSeq(buf, p + 1, Len(buf)))),
           p + strtod_end(SubSeq(buf, p + 1, Len(buf))))

\* strncmp(json_buffer, word, Len(word)) == 0.
StartsWith(buf, p, word) == \A i \in DOMAIN word : CharAt(buf, p + i - 1) = word[i]

RECURSIVE json__parse_value(_, _, _)
RECURSIVE json__array_loop(_, _, _, _)
RECURSIVE json__object_loop(_, _, _, _)

\* After an element: a comma continues, `]` ends, anything else runs the loop
\* again from the same byte.
ArraySeparator(buf, q, items, fuel) ==
    IF CharAt(buf, q) = "," THEN json__array_loop(buf, q + 1, items, fuel - 1)
    ELSE IF CharAt(buf, q) = "]"
    THEN Result([type |-> "JSON_ARRAY", items |-> items], q + 1)
    ELSE json__array_loop(buf, q, items, fuel - 1)

\* r is what json__parse_value returned for the element; it is stored as it
\* is, NULL too.
ArrayElement(buf, r, items, fuel) ==
    IF r.fault THEN r
    ELSE ArraySeparator(buf, json__skip_whitespace(buf, r.p), Append(items, r.v), fuel)

\* while (1) of json__parse_array; without fuel the loop never ends.
json__array_loop(buf, p, items, fuel) ==
    IF fuel = 0 THEN Hung(p)
    ELSE ArrayElement(buf, json__parse_value(buf, json__skip_whitespace(buf, p), fuel - 1),
                      items, fuel)

\* json__parse_array with json_buffer at `[`.
json__parse_array(buf, p, fuel) ==
    IF CharAt(buf, json__skip_whitespace(buf, p + 1)) = "]"
    THEN Result(json_new_array, json__skip_whitespace(buf, p + 1) + 1)
    ELSE json__array_loop(buf, json__skip_whitespace(buf, p + 1), <<>>, fuel)

ObjectSeparator(buf, q, items, fuel) ==
    IF CharAt(buf, q) = "," THEN json__object_loop(buf, q + 1, items, fuel - 1)
    ELSE IF CharAt(buf, q) = "}"
    THEN Result([type |-> "JSON_OBJECT", items |-> items], q + 1)
    ELSE json__object_loop(buf, q, items, fuel - 1)

\* r is what json__parse_value returned for the member: the pair is appended.
ObjectMember(buf, key, r, items, fuel) ==
    IF r.fault THEN r
    ELSE ObjectSeparator(buf, json__skip_whitespace(buf, r.p),
                         Append(items, [key |-> key, val |-> r.v]), fuel)

\* k is what json__parse_string returned for the key, q the byte after the
\* whitespace that follows it.
ObjectKey(buf, k, q, items, fuel) ==
    IF k.fault THEN k
    ELSE IF CharAt(buf, q) # ":" THEN Result(NoValue, q)
    ELSE ObjectMember(buf, k.v,
                      json__parse_value(buf, json__skip_whitespace(buf, q + 1), fuel - 1),
                      items, fuel)

\* q is json_buffer after the whitespace at the head of the loop.
ObjectAt(buf, q, items, fuel) ==
    IF CharAt(buf, q) # "\"" THEN Result(NoValue, q)
    ELSE ObjectKey(buf, json__parse_string(buf, q),
                   json__skip_whitespace(buf, json__parse_string(buf, q).p), items, fuel)

\* while (1) of json__parse_object.
json__object_loop(buf, p, items, fuel) ==
    IF fuel = 0 THEN Hung(p)
    ELSE ObjectAt(buf, json__skip_whitespace(buf, p), items, fuel)

\* json__parse_object with json_buffer at `{`.
json__parse_object(buf, p, fuel) ==
    IF CharAt(buf, json__skip_whitespace(buf, p + 1)) = "}"
    THEN Result(json_new_object, json__skip_whitespace(buf, p + 1) + 1)
    ELSE json__object_loop(buf, json__skip_whitespace(buf, p + 1), <<>>, fuel)

\* s is what json__parse_string returned: the String value that takes it.
StringValue(s) == IF s.fault THEN s ELSE Result(json_new_string(s.v), s.p)

\* json__parse_value with json_buffer at q, behind the whitespace.
ValueAt(buf, q, fuel) ==
    IF CharAt(buf, q) = "\"" THEN StringValue(json__parse_string(buf, q))
    ELSE IF CharAt(buf, q) = "{" THEN json__parse_object(buf, q, fuel)
    ELSE IF CharAt(buf, q) = "[" THEN json__parse_array(buf, q, fuel)
    ELSE IF StartsWith(buf, q, <<"t", "r", "u", "e">>)
    THEN Result(json_new_boolean(1), q + 4)
    ELSE IF StartsWith(buf, q, <<"f", "a", "l", "s", "e">>)
    THEN Result(json_new_boolean(0), q + 5)
    ELSE IF StartsWith(buf, q, <<"n", "u", "l", "l">>)
    THEN Result(json_new_null, q + 4)
    ELSE IF CharAt(buf, q) = "-" \/ CharAt(buf, q) \in Digits
    THEN json__parse_number(buf, q)
    ELSE Result(NoValue, q)

json__parse_value(buf, p, fuel) == ValueAt(buf, json__skip_whitespace(buf, p), fuel)

\* json_from_string: json_buffer = string; return json__parse_value().
json_from_string(string) == json__parse_value(string, 0, 2 * Len(string) + 2)

\* ---- building a tree, printing it, parsing the print

MaxItems == 2
MaxDepth == 2

\* The strings and keys the caller passes, the numbers it passes.
Texts == {<<>>, <<"a">>, <<"\"">>, <<"a", "\"", "b">>, <<"\\">>}
KeyTexts == {<<"a">>, <<"a", "\"", "b">>}
Numbers ==
    {Normal(FALSE, 0, 0), Normal(FALSE, 1, 0), Normal(TRUE, 5, -1),
     Normal(FALSE, 15, -1), Normal(FALSE, 1, 6), Normal(FALSE, 1234567, 0),
     Normal(FALSE, 1, -4)}

\* What one call of a json_new_ function returns.
Leaves ==
    {json_new_string(s) : s \in Texts} \cup {json_new_number(n) : n \in Numbers}
        \cup {json_new_boolean(b) : b \in {0, 1}}
        \cup {json_new_null, json_new_object, json_new_array}

RECURSIVE Depth(_)
\* How deep the objects of a tree nest.
Depth(v) ==
    IF v.type # "JSON_OBJECT" \/ v.items = <<>> THEN 0
    ELSE 1 + Depth(v.items[CHOOSE i \in DOMAIN v.items :
                             \A j \in DOMAIN v.items :
                                 Depth(v.items[j].val) <= Depth(v.items[i].val)].val)

InitTree ==
    /\ mach = Machine0
    /\ pc = "idle"
    /\ MapIdle /\ ArrayIdle /\ LoadIdle /\ TreeIdle

\* json_new_string, json_new_number, json_new_boolean, json_new_null,
\* json_new_object or json_new_array makes the root.
TreeNew ==
    /\ pc = "idle"
    /\ treeRoot' \in Leaves
    /\ pc' = "built"
    /\ UNCHANGED <<mach, map, sets, lastGet, arr, appended, printed, source, head,
                   cursor, root, doc, treeText, treeBack>>

\* json_set(root, key, value) with a freshly made value.
TreeSet ==
    /\ pc = "built"
    /\ treeRoot.type = "JSON_OBJECT"
    /\ Len(treeRoot.items) < MaxItems
    /\ \E k \in KeyTexts : \E v \in Leaves : treeRoot' = json_set(treeRoot, k, v)
    /\ UNCHANGED <<mach, pc, map, sets, lastGet, arr, appended, printed, source, head,
                   cursor, root, doc, treeText, treeBack>>

\* The tree becomes a member of a new object: json_set(json_new_object(), key, root).
TreeWrap ==
    /\ pc = "built"
    /\ Depth(treeRoot) < MaxDepth
    /\ \E k \in KeyTexts : treeRoot' = json_set(json_new_object, k, treeRoot)
    /\ UNCHANGED <<mach, pc, map, sets, lastGet, arr, appended, printed, source, head,
                   cursor, root, doc, treeText, treeBack>>

\* s is what json_to_string did.
Printed(s) ==
    /\ treeText' = s.text
    /\ pc' = IF s.fault THEN "crashed" ELSE "printed"

\* json_to_string(root).
TreePrint ==
    /\ pc = "built"
    /\ \E va \in VaOutcomes : Printed(json_to_string(treeRoot, va))
    /\ UNCHANGED <<mach, map, sets, lastGet, arr, appended, printed, source, head,
                   cursor, root, doc, treeRoot, treeBack>>

\* r is what json_from_string returned.
Reparsed(r) ==
    /\ treeBack' = r.v
    /\ pc' = IF r.fault THEN "crashed" ELSE "reparsed"

\* json_from_string on the text json_to_string returned.
TreeParse ==
    /\ pc = "printed"
    /\ Reparsed(json_from_string(treeText))
    /\ UNCHANGED <<mach, map, sets, lastGet, arr, appended, printed, source, head,
                   cursor, root, doc, treeRoot, treeText>>

NextTree == TreeNew \/ TreeSet \/ TreeWrap \/ TreePrint \/ TreeParse

SpecTree == InitTree /\ [][NextTree]_vars

\* ---- json_from_string on the caller's own texts

\* The texts handed to json_from_string: every string of up to MaxText of
\* these bytes.
MaxText == 4
TextBytes == {"[", "]", "1", ",", " ", "x", "\"", "{"}
AllTexts == UNION {[1 .. n -> TextBytes] : n \in 0 .. MaxText}

InitText ==
    /\ mach = Machine0
    /\ pc = "text"
    /\ MapIdle /\ ArrayIdle /\ LoadIdle
    /\ treeRoot = NoValue
    /\ treeBack = NoValue
    /\ treeText \in AllTexts

\* r is what json_from_string did with the text.
TextReturned(r) ==
    /\ treeBack' = r.v
    /\ pc' = IF r.hang THEN "hung" ELSE IF r.fault THEN "crashed" ELSE "returned"

\* json_from_string(text).
TextParse ==
    /\ pc = "text"
    /\ TextReturned(json_from_string(treeText))
    /\ UNCHANGED <<mach, map, sets, lastGet, arr, appended, printed, source, head,
                   cursor, root, doc, treeRoot, treeText>>

NextText == TextParse

SpecText == InitText /\ [][NextText]_vars


\* ------------------------------------------------------ claims on the map

\* The calls of json_object_set made with the bytes of `key`.
SetsOf(key) == {i \in DOMAIN sets : Str(mach, sets[i].key) = key}

\* The first of a non-empty set of call numbers.
FirstOf(S) == CHOOSE i \in S : \A j \in S : i <= j

\* C2: json_object_get(k), for a key k that was passed to json_object_set,
\* returns a value that was passed to json_object_set together with k, and
\* never the value of a different key.
C2_GetReturnsValueOfKey ==
    (lastGet.done /\ SetsOf(lastGet.key) # {})
        => /\ ~lastGet.hang
           /\ lastGet.ret \in {sets[i].value : i \in SetsOf(lastGet.key)}

\* C3: after any sequence of json_object_set calls the count of the map is the
\* number of distinct keys (compared byte for byte, whole key) passed to set.
C3_CountIsDistinctKeys ==
    pc = "ready" =>
        mach.heap[map].count =
            Cardinality({Str(mach, sets[i].key) : i \in DOMAIN sets})

\* C4: after every json_object_set call that returns success the load factor
\* count / capacity is at most 0.75.
C4_LoadAtMostThreeQuarters ==
    (pc = "ready" /\ sets # <<>> /\ sets[Len(sets)].ret = 0)
        => 4 * mach.heap[map].count <= 3 * mach.heap[map].capacity

\* C5: first write wins: json_object_get(k) returns the value of the first
\* json_object_set call made with k, whatever calls followed it.
C5_FirstWriteWins ==
    (lastGet.done /\ SetsOf(lastGet.key) # {})
        => lastGet.ret = sets[FirstOf(SetsOf(lastGet.key))].value

\* C23: whenever json_object_expand runs (a json_object_set call changes the
\* capacity c of the map), the capacity it leaves is max(16, 2 * c).
C23_ExpandedCapacityIsMax16Double ==
    [][(pc = "ready" /\ pc' = "ready"
            /\ mach'.heap[map].capacity # mach.heap[map].capacity)
        => mach'.heap[map].capacity =
              IF 2 * mach.heap[map].capacity > 16
              THEN 2 * mach.heap[map].capacity ELSE 16]_vars

\* The occupied slots of the map, as (key pointer, value pointer) pairs.
PairsOf(m, object) ==
    LET obj == m.heap[object]
    IN  { <<m.heap[obj.content].slots[j].ptr, m.heap[obj.content].slots[j].value>> :
            j \in { i \in 0 .. obj.capacity - 1 :
                      m.heap[obj.content].slots[i].ptr # NULL } }

\* The next json_object_set call on the map starts with json_object_expand.
AboutToExpand == pc = "ready" /\ json_object_needs_to_expand(mach.heap[map]) = 1

\* The map as a successful json_object_expand leaves it keeps what m held:
\* the count, the pairs, and for every stored key the value json_object_get
\* returned for it.
ExpandKeeps(m, e, object) ==
    e.ret = 0 =>
        /\ e.m.heap[object].count = m.heap[object].count
        /\ PairsOf(e.m, object) = PairsOf(m, object)
        /\ \A pair \in PairsOf(m, object) :
              /\ ~json_object_get(e.m, object, pair[1]).hang
              /\ json_object_get(e.m, object, pair[1]).ret # NULL
              /\ json_object_get(e.m, object, pair[1]).ret =
                    json_object_get(m, object, pair[1]).ret

\* C25: json_object_expand preserves the contents: the count is unchanged, the
\* occupied slots hold the same (key pointer, value pointer) pairs, and every
\* key present before is still found by json_object_get afterwards.
C25_ExpandPreservesContents ==
    AboutToExpand => ExpandKeeps(mach, json_object_expand(mach, map), map)

\* Some occupied slot of the map holds the key k, byte for byte.
KeyPresent(m, object, k) ==
    \E pair \in PairsOf(m, object) : Str(m, pair[1]) = k

\* C26: a json_object_set call whose key is already present is a no-op on the
\* map: the count, the capacity, the slot storage and every association are
\* as before the call.
C26_SetOfPresentKeyIsNoOp ==
    [][(/\ pc = "ready"
        /\ Len(sets') = Len(sets) + 1
        /\ KeyPresent(mach, map, Str(mach', sets'[Len(sets')].key)))
       => /\ mach'.heap[map] = mach.heap[map]
          /\ mach'.heap[mach.heap[map].content] = mach.heap[mach.heap[map].content]]_vars

\* The 64-bit FNV-1a parameters: the offset basis 14695981039346656037
\* (0xCBF29CE484222325) and the prime 1099511628211 (0x100000001B3).
FnvOffsetBasis == <<37, 35, 34, 132, 228, 156, 242, 203>>
FnvPrime == <<179, 1, 0, 0, 0, 1, 0, 0>>

RECURSIVE Fnv1aLoop(_, _, _)
\* Standard FNV-1a: per byte, XOR it into the hash, then multiply by the prime.
Fnv1aLoop(hash, view, i) ==
    IF i >= Len(view) THEN hash
    ELSE Fnv1aLoop(Mul64(Xor64Byte(hash, Ord(view[i + 1])), FnvPrime), view, i + 1)

Fnv1a(view) == Fnv1aLoop(FnvOffsetBasis, view, 0)

\* C27: the hash json_object_set computes for its key (and reduces modulo the
\* capacity to the first slot probed) is the standard 64-bit FNV-1a hash of
\* the key: offset basis 14695981039346656037, prime 1099511628211, XOR then
\* multiply modulo 2^64.
C27_HashIsStandardFnv1a ==
    (pc = "ready" /\ sets # <<>>)
        => json_hash_string_view(Str(mach, sets[Len(sets)].key),
                                 Len(Str(mach, sets[Len(sets)].key)))
              = Fnv1a(Str(mach, sets[Len(sets)].key))

\* C28: on every map reachable from json_create_object(c) with c >= 1 by
\* json_object_set calls, json_object_get ends for every key, present or
\* absent, and json_object_set ends for every key.
C28_GetAndSetTerminate ==
    /\ lastGet.done => ~lastGet.hang
    /\ mach.fault # "hang"

\* --------------------------------------------------- claims on json_load

RECURSIVE Matches(_, _, _)
\* The Value at p is the tree: the same tags, the same keys, the same element
\* order and the same scalars.
Matches(m, p, tree) ==
    /\ IsA(m, p, "value")
    /\ LET v == m.heap[p]
       IN  CASE tree.t = "object" ->
                  /\ v.identity = "JSON_OBJECT"
                  /\ IsA(m, v.u, "object")
                  /\ m.heap[v.u].count = Len(tree.members)
                  /\ \A i \in DOMAIN tree.members :
                        \E j \in 0 .. m.heap[v.u].capacity - 1 :
                           LET slot == m.heap[m.heap[v.u].content].slots[j]
                           IN  /\ slot.ptr # NULL
                               /\ Str(m, slot.ptr) = tree.members[i][1]
                               /\ Matches(m, slot.value, tree.members[i][2])
             [] tree.t = "array" ->
                  /\ v.identity = "JSON_ARRAY"
                  /\ LET out == json_print_array(m, v.u).out
                     IN  /\ Len(out) = Len(tree.items)
                         /\ \A i \in DOMAIN out : Matches(m, out[i], tree.items[i])
             [] tree.t = "string" ->
                  v.identity = "JSON_STRING" /\ Str(m, v.u) = tree.s
             [] tree.t = "number" -> v.identity = "JSON_NUMBER" /\ v.u = tree.n
             [] tree.t = "boolean" ->
                  v.identity = "JSON_BOOLEAN" /\ v.u = (IF tree.b THEN 1 ELSE 0)
             [] tree.t = "null" -> v.identity = "JSON_NULL"
             [] OTHER -> FALSE

\* The class of the file being loaded.
Class == IF doc = 0 THEN "none" ELSE Docs[doc].class

\* C1: for every well-formed JSON text json_lexer followed by json_parser
\* returns the value tree of the text: the same tags, key sets, element order
\* and scalar values.
C1_WellFormedTextYieldsItsTree ==
    (Class = "wf" /\ pc \in {"rejected", "crashed", "parsed"})
        => /\ pc = "parsed"
           /\ root # NULL
           /\ Matches(mach, root, Docs[doc].tree)

\* The file holds an empty container: {} or [], possibly with whitespace
\* between the brackets.
IsEmptyContainer ==
    Class = "wf" /\ Docs[doc].tree \in {TObject(<<>>), TArray(<<>>)}

\* C24: the text {} parses to an Object whose count is 0 and the text [] to an
\* Array whose forward traversal yields no element, also when whitespace
\* stands between the brackets.
C24_EmptyContainersParseEmpty ==
    (IsEmptyContainer /\ pc \in {"rejected", "crashed", "parsed"})
        => /\ pc = "parsed"
           /\ root # NULL
           /\ IsA(mach, root, "value")
           /\ IF Docs[doc].tree.t = "object"
              THEN /\ mach.heap[root].identity = "JSON_OBJECT"
                   /\ IsA(mach, mach.heap[root].u, "object")
                   /\ mach.heap[mach.heap[root].u].count = 0
              ELSE /\ mach.heap[root].identity = "JSON_ARRAY"
                   /\ json_print_array(mach, mach.heap[root].u).out = <<>>

\* An empty object and an empty array with whitespace inside have been parsed.
C24_Witness ==
    /\ pc = "parsed"
    /\ IsEmptyContainer
    /\ Len(source) > 2
    /\ root # NULL

\* The blocks json_load itself still owns while json_parser runs.
OwnedByLoad == {"token", "data"}

\* C7: when json_parser fails, everything it allocated has been released when
\* NULL reaches json_load, and once json_load has released the tokens and the
\* buffer nothing allocated by the call remains.
C7_FailureReleasesEverything ==
    /\ (pc = "parsed" /\ root = NULL)
          => \A a \in DOMAIN mach.heap : mach.heap[a].kind \in OwnedByLoad
    /\ (pc = "done" /\ root = NULL) => DOMAIN mach.heap = {}

\* C8: for a token sequence that ends before the value is complete
\* json_parser returns NULL; it does not dereference the exhausted cursor and
\* does not abort.
C8_TruncatedTokensReturnNull ==
    (Class = "truncated" /\ pc \in {"parsed", "crashed"})
        => (mach.fault = NoFault /\ root = NULL)

\* C9: for a text with a string that has no closing quote json_lexer returns
\* a lexical error citing the line, and never reads at or beyond the end of
\* the source buffer.
C9_UnterminatedStringIsLexError ==
    (Class = "unterminated" /\ pc # "idle" /\ pc # "read")
        => /\ pc = "rejected"
           /\ ~mach.oob
           /\ \E i \in DOMAIN mach.stderr : mach.stderr[i].what = "lexer"

\* C10: a } or ] token where a value is expected is a parse error:
\* json_parser returns NULL, not a value.
C10_CloserAtValuePositionIsError ==
    (Class = "closer" /\ pc \in {"parsed", "crashed"})
        => (mach.fault = NoFault /\ root = NULL)


\* json_lexer has met a byte that starts no token (its default case ran).
StrayByteReported == \E i \in DOMAIN mach.stderr : mach.stderr[i].what = "lexer"

\* C11: when json_lexer meets a byte that starts no token it returns NULL and
\* every token node allocated during the call, the one being built for the
\* offending byte included, has been released.
C11_StrayByteReleasesEveryToken ==
    (pc = "rejected" /\ StrayByteReported /\ ~mach.oob)
        => \A a \in DOMAIN mach.heap : mach.heap[a].kind # "token"


RECURSIVE TokenList(_, _)
\* The token nodes of the list that starts at t, in order.
TokenList(m, t) ==
    IF t = NULL THEN <<>> ELSE <<m.heap[t]>> \o TokenList(m, m.heap[t].next)

\* C12: every token json_lexer returns lies within the source
\* (source <= start <= end <= source + size) and the end of a token is at or
\* before the start of the next.
C12_TokenSpansWithinSource ==
    (pc = "lexed" /\ Class # "unterminated") =>
        LET toks == TokenList(mach, head)
        IN  /\ \A i \in DOMAIN toks :
                  /\ 0 <= toks[i].start
                  /\ toks[i].start <= toks[i].end
                  /\ toks[i].end <= Len(source)
            /\ \A i \in 1 .. Len(toks) - 1 : toks[i].end <= toks[i + 1].start


\* The file is one JSON number literal.
IsNumberLiteral == Class = "wf" /\ Docs[doc].tree.t = "number"

\* C13: for a JSON number literal json_lexer emits exactly one number token
\* whose span is the whole literal.
C13_NumberLiteralIsOneToken ==
    (IsNumberLiteral /\ pc \in {"lexed", "rejected", "crashed"})
        => /\ pc = "lexed"
           /\ LET toks == TokenList(mach, head)
              IN  /\ Len(toks) = 1
                  /\ toks[1].identity = "JSON_TOKEN_NUMBER"
                  /\ toks[1].start = 0
                  /\ toks[1].end = Len(source)


\* C14: when an allocation of json_lexer or json_parser (with the
\* json_create_object, json_create_array, json_array_append and
\* json_object_set calls it makes) fails, no null pointer is dereferenced,
\* json_load returns NULL (no tree with a value missing) and nothing that the
\* failed call built stays allocated.
C14_AllocationFailureIsHandled ==
    mach.nomem =>
        /\ pc # "crashed"
        /\ pc = "rejected" => DOMAIN mach.heap = {}
        /\ pc = "parsed" =>
              /\ root = NULL
              /\ \A a \in DOMAIN mach.heap : mach.heap[a].kind \in OwnedByLoad
        /\ pc = "done" => root = NULL /\ DOMAIN mach.heap = {}

\* C15: one json_free(&root) on the tree json_load returned for a well-formed
\* text releases the root's Value node and all it owns, whatever the root's
\* tag: afterwards no allocation remains.
C15_OneFreeReleasesTheTree ==
    (pc = "released" /\ Class = "wf") => DOMAIN mach.heap = {}

\* The root of the text is an array of n >= 1 scalars.
IsArrayOfScalars ==
    /\ Class = "wf" /\ Docs[doc].tree.t = "array"
    /\ Docs[doc].tree.items # <<>>
    /\ \A i \in DOMAIN Docs[doc].tree.items :
          Docs[doc].tree.items[i].t \notin {"array", "object"}

\* C16: json_free_array on an array of n >= 1 elements releases the Value of
\* every node and every node: after the release of a parsed array of scalars
\* only the array's own Value node (which json_free_array never holds) may
\* remain.
C16_FreeArrayReleasesEveryElement ==
    (pc = "released" /\ IsArrayOfScalars) =>
        \A a \in DOMAIN mach.heap :
            mach.heap[a].kind = "value" /\ mach.heap[a].identity = "JSON_ARRAY"

\* C17: after json_free(&v) on a tree json_load returned v is NULL, and a
\* further json_free(&v), like json_free on the NULL that json_load returned
\* for a rejected text, changes nothing: no block is released, v stays NULL.
C17_FreeAgainIsNoOp ==
    /\ [](pc = "released" => root = NULL)
    /\ [][(pc \in {"done", "released"} /\ (pc = "done" => root = NULL))
            => (pc' = "again" /\ root' = NULL /\ mach' = mach)]_vars

\* json_free has been called a second time on the reference of a parsed object.
C17_Witness ==
    /\ pc = "again" /\ root = NULL
    /\ Class = "wf" /\ Docs[doc].tree.t = "object"

\* C19: a text that holds one value followed by further tokens that are not
\* whitespace (`[] []`, `1 2`, `null,`) is not reported as the successful
\* parse of one root value: json_parser and json_load return NULL for it.
C19_TrailingTokensAreRejected ==
    (Class = "trailing" /\ pc \in {"parsed", "done"}) => root = NULL

\* The block at a is the key (the value) of an occupied slot of a table.
IsKeyOfSlot(a) ==
    \E c \in DOMAIN mach.heap :
        /\ mach.heap[c].kind = "content"
        /\ \E i \in DOMAIN mach.heap[c].slots : mach.heap[c].slots[i].ptr = a
IsValueOfSlot(a) ==
    \E c \in DOMAIN mach.heap :
        /\ mach.heap[c].kind = "content"
        /\ \E i \in DOMAIN mach.heap[c].slots :
              mach.heap[c].slots[i].ptr # NULL /\ mach.heap[c].slots[i].value = a

\* The block at a, a string or a Value, is held by the root reference, by a
\* slot of a table, by a String Value or by a node of an array.
HasOwner(a) ==
    IF mach.heap[a].kind = "cstring"
    THEN \/ IsKeyOfSlot(a)
         \/ \E v \in DOMAIN mach.heap :
               /\ mach.heap[v].kind = "value"
               /\ mach.heap[v].identity = "JSON_STRING"
               /\ mach.heap[v].u = a
    ELSE \/ a = root
         \/ IsValueOfSlot(a)
         \/ \E n \in DOMAIN mach.heap :
               mach.heap[n].kind = "array" /\ mach.heap[n].content = a

\* C20: when json_parser has returned the tree of an object text that repeats
\* a key, every key string it decoded and every member value it parsed is
\* stored in a slot of the map, which is its one owner.
C20_EveryPairIsOwnedByTheMap ==
    (pc = "parsed" /\ root # NULL /\ Class = "repeated") =>
        \A a \in DOMAIN mach.heap :
            mach.heap[a].kind \in {"cstring", "value"} => HasOwner(a)

\* The text is not JSON and its first byte is that of a literal.
StartsLikeALiteral == Class = "other" /\ source # <<>> /\ source[1] \in {"t", "f", "n"}

\* C21: a text that starts with `t`, `f` or `n` and does not spell `true`,
\* `false` or `null` yields no Boolean and no Null: json_parser returns NULL
\* for it (texts too short for the literal's width are left to C12).
C21_OnlyTheLiteralsAreAccepted ==
    (StartsLikeALiteral /\ ~mach.oob /\ pc = "parsed") => root = NULL

RECURSIVE SourceLine(_, _)
\* The text of line k of src, without its LF.
SourceLine(src, k) ==
    LET first == IF \E i \in DOMAIN src : src[i] = "\n"
                 THEN CHOOSE i \in DOMAIN src :
                         src[i] = "\n" /\ \A j \in 1 .. i - 1 : src[j] # "\n"
                 ELSE Len(src) + 1
    IN  IF k <= 1 THEN SubSeq(src, 1, first - 1)
        ELSE SourceLine(SubSeq(src, first + 1, Len(src)), k - 1)

\* C22: the line json_lexer prints for an unexpected byte on line k is the
\* whole text of line k of the source, for every k >= 1.
C22_ReportedLineIsTheWholeLine ==
    (pc = "rejected" /\ ~mach.oob) =>
        \A i \in DOMAIN mach.stderr :
            mach.stderr[i].what = "lexer" =>
                mach.stderr[i].text = SourceLine(source, mach.stderr[i].line)

RECURSIVE TokensOf(_, _)
\* The nodes of the token list from token on.
TokensOf(m, token) ==
    IF token = NULL THEN {} ELSE {token} \cup TokensOf(m, m.heap[token].next)

\* C29: the token list json_lexer returns tiles the input: the token spans
\* printed in order, with the two quotes restored around every string span
\* as json_print_tokens does, give the source text byte for byte, and every
\* pass of the lexer's loop has consumed at least one byte (a token that is
\* not a string spans at least one byte; a string token consumes its quotes).
C29_TokensTileTheInput ==
    (pc = "lexed" /\ ~mach.oob) =>
        /\ json_print_tokens(mach, source, head) = source
        /\ \A t \in TokensOf(mach, head) :
              mach.heap[t].identity # "JSON_TOKEN_STRING"
                  => mach.heap[t].end > mach.heap[t].start

\* ------------------------------------------------- claims on the round trip

RECURSIVE StructurallyEqual(_, _)
\* Same tags, same key sets, same array element order, same scalar values;
\* the order of an object's keys does not count.
StructurallyEqual(a, b) ==
    /\ a.type = b.type
    /\ CASE a.type = "JSON_OBJECT" ->
              /\ Len(a.items) = Len(b.items)
              /\ {a.items[i].key : i \in DOMAIN a.items}
                    = {b.items[i].key : i \in DOMAIN b.items}
              /\ \A i \in DOMAIN a.items :
                    StructurallyEqual(a.items[i].val, json_get(b, a.items[i].key))
         [] a.type = "JSON_ARRAY" ->
              /\ Len(a.items) = Len(b.items)
              /\ \A i \in DOMAIN a.items : StructurallyEqual(a.items[i], b.items[i])
         [] a.type = "JSON_STRING" -> a.string = b.string
         [] a.type = "JSON_NUMBER" -> a.number = b.number
         [] a.type = "JSON_BOOL" -> a.boolean = b.boolean
         [] OTHER -> TRUE

\* C18: json_from_string(json_to_string(tree)) is structurally equal to a
\* tree built with json_new_string, json_new_number, json_new_boolean,
\* json_new_null, json_new_object, json_new_array and json_set.
C18_RoundTrip ==
    /\ pc # "crashed"
    /\ pc = "reparsed" => StructurallyEqual(treeRoot, treeBack)

\* C30: json_from_string terminates on every NUL-terminated text, well-formed
\* or not, returning a value or NULL; the array loop of json__parse_array ends
\* when an element is followed by neither a comma nor a closing bracket, as in
\* `[1` and `[1 x`.
C30_FromStringTerminates ==
    pc # "hung"

\* ---------------------------------------------------- claims on the array

\* C6: after n json_array_append calls with non-null values the forward
\* traversal of json_print_array visits exactly the n appended values, in the
\* order they were appended.
C6_TraversalYieldsAppended ==
    pc = "printed" => (printed = appended /\ mach.fault = NoFault)

\* C6 happens: an array of three or more nodes (the multi-node branch of
\* append and of print) has been traversed.
C6_Witness == pc = "printed" /\ Len(appended) >= 3 /\ printed = appended


====
